---- MODULE Spec2Model ----
(***************************************************************************)
(* Model of the monolithic-C-file splitter (src/splitter7.py): extraction  *)
(* of elements, classification into modules, synthesis of the header and   *)
(* implementation files, and the verification / repair pass.               *)
(*                                                                         *)
(* Text is modelled exactly, at the granularity of lines: a text is the    *)
(* sequence text.split('\n') of its lines (strings), so a text that ends   *)
(* with a newline ends with the empty line "".                             *)
(*                                                                         *)
(* Scope of the modelled inputs: every declaration (function, struct,      *)
(* enum, typedef, macro) lies on one line, so the declaration regexes are  *)
(* evaluated line by line; the function regex, whose return-type class     *)
(* contains white space, is evaluated across line boundaries.  Inputs are  *)
(* small, so no wall-clock budget of the verifier is ever exhausted.       *)
(***************************************************************************)
EXTENDS Integers, Sequences, FiniteSets, TLC

(***************************************************************************)
(* Bounds of the model.                                                    *)
(***************************************************************************)
MaxLines == 3
MaxCtx == 2

(***************************************************************************)
(* Characters and strings.                                                 *)
(***************************************************************************)
LowerStr == "abcdefghijklmnopqrstuvwxyz"
UpperStr == "ABCDEFGHIJKLMNOPQRSTUVWXYZ"
DigitStr == "0123456789"

Ch(s, i) == SubSeq(s, i, i)

CharsOf(s) == {Ch(s, i) : i \in 1..Len(s)}

LetterChars == CharsOf(LowerStr) \cup CharsOf(UpperStr) \cup {"_"}

WordChars == LetterChars \cup CharsOf(DigitStr)

SpaceChars == {" ", "\t", "\n"}

\* the class [a-zA-Z0-9_*\s] of the return type in function_regex
TypeChars == WordChars \cup SpaceChars \cup {"*"}

Min2(a, b) == IF a < b THEN a ELSE b

Max2(a, b) == IF a > b THEN a ELSE b

\* the least element of a set of positions, 0 when it is empty
MinOf(hits) == IF hits = {} THEN 0 ELSE CHOOSE i \in hits : \A j \in hits : i <= j

\* the greatest element of a set of positions, 0 when it is empty
MaxOf(hits) == IF hits = {} THEN 0 ELSE CHOOSE i \in hits : \A j \in hits : i >= j

\* what a character adds to a count of open braces
BraceValue(c) == IF c = "{" THEN 1 ELSE IF c = "}" THEN -1 ELSE 0

StartsWith(s, p) == Len(s) >= Len(p) /\ SubSeq(s, 1, Len(p)) = p

EndsWith(s, p) == Len(s) >= Len(p) /\ SubSeq(s, Len(s) - Len(p) + 1, Len(s)) = p

\* s[i:] of Python with i counted from 1
From(s, i) == SubSeq(s, i, Len(s))

\* is p at position i of s
At(s, i, p) == i >= 1 /\ i + Len(p) - 1 <= Len(s) /\ SubSeq(s, i, i + Len(p) - 1) = p

\* p in s
Contains(s, p) == \E i \in 1..(Len(s) - Len(p) + 1) : SubSeq(s, i, i + Len(p) - 1) = p

\* s.find(p, from) counted from 1; 0 when absent
IndexFrom(s, p, from) ==
    MinOf({i \in from..(Len(s) - Len(p) + 1) : SubSeq(s, i, i + Len(p) - 1) = p})

IndexOf(s, p) == IndexFrom(s, p, 1)

\* s.rindex(p) counted from 1; 0 when absent
LastIndexOf(s, p) ==
    MaxOf({i \in 1..(Len(s) - Len(p) + 1) : SubSeq(s, i, i + Len(p) - 1) = p})

\* s.count(c) for a one-character c
CountChar(s, c) == Cardinality({i \in 1..Len(s) : Ch(s, i) = c})

\* s.strip()
Between(s, ink) == IF ink = {} THEN "" ELSE SubSeq(s, MinOf(ink), MaxOf(ink))

Strip(s) == Between(s, {i \in 1..Len(s) : Ch(s, i) \notin SpaceChars})

RECURSIVE MapCase(_, _, _)
MapCase(s, from, to) ==
    IF s = "" THEN ""
    ELSE LET c == Ch(s, 1)
             k == IndexOf(from, c)
         IN  (IF k = 0 THEN c ELSE Ch(to, k)) \o MapCase(From(s, 2), from, to)

\* s.lower() and s.upper()
Lower(s) == MapCase(s, UpperStr, LowerStr)

Upper(s) == MapCase(s, LowerStr, UpperStr)

\* end (inclusive) of the run of word characters that starts at i; i - 1 when none
RECURSIVE WordEnd(_, _)
WordEnd(s, i) == IF i <= Len(s) /\ Ch(s, i) \in WordChars THEN WordEnd(s, i + 1) ELSE i - 1

\* first position >= i that is not white space
RECURSIVE SkipSpace(_, _)
SkipSpace(s, i) == IF i <= Len(s) /\ Ch(s, i) \in SpaceChars THEN SkipSpace(s, i + 1) ELSE i

\* the identifier [a-zA-Z_][a-zA-Z0-9_]* at position i of s, "" when there is none
IdentAt(s, i) ==
    IF i <= Len(s) /\ Ch(s, i) \in LetterChars THEN SubSeq(s, i, WordEnd(s, i)) ELSE ""

\* \b after the match that ends at position e of s
BoundaryAfter(s, e) == e >= Len(s) \/ Ch(s, e + 1) \notin WordChars

\* len(re.findall(p + r'\b', s)) for a literal p that ends with a word character
CountWord(s, p) ==
    Cardinality({i \in 1..(Len(s) - Len(p) + 1) :
                    SubSeq(s, i, i + Len(p) - 1) = p /\ BoundaryAfter(s, i + Len(p) - 1)})

(***************************************************************************)
(* Texts: the sequence of the lines of a string.                           *)
(***************************************************************************)
Last(q) == q[Len(q)]

Front(q) == SubSeq(q, 1, Len(q) - 1)

EmptyText == <<"">>

\* a + b on strings
TextCat(a, b) == Front(a) \o <<Last(a) \o Head(b)>> \o Tail(b)

\* text.splitlines(): the final newline does not open a line
SplitLines(t) == IF Last(t) = "" THEN Front(t) ELSE t

\* '\n'.join(lines)
JoinLines(lines) == IF lines = <<>> THEN EmptyText ELSE lines

\* len(text)
RECURSIVE TextLen(_)
TextLen(t) == IF Len(t) = 1 THEN Len(t[1]) ELSE Len(t[1]) + 1 + TextLen(Tail(t))

\* '\n'.join of lines as one string, and its inverse s.split('\n')
RECURSIVE JoinStr(_)
JoinStr(lines) ==
    IF lines = <<>> THEN ""
    ELSE IF Len(lines) = 1 THEN lines[1]
    ELSE lines[1] \o "\n" \o JoinStr(Tail(lines))

RECURSIVE SplitStr(_)
SplitStr(s) ==
    LET k == IndexOf(s, "\n")
    IN  IF k = 0 THEN <<s>> ELSE <<SubSeq(s, 1, k - 1)>> \o SplitStr(From(s, k + 1))

(***************************************************************************)
(* The inputs.  CoreLines are the directive and statement lines of which   *)
(* every sequence up to MaxLines is an input; DeclLines are declarations,  *)
(* one of which is put at any place of a sequence of up to MaxCtx lines of *)
(* CtxLines; Scenarios are further inputs.                                 *)
(***************************************************************************)
CoreLines == {"#ifdef FOO", "#else", "#endif", "int x;"}

CtxLines == {"#ifdef FOO", "#endif"}

DeclLines ==
    { "#define FOO 1",
      "#define SOD_OK 0",
      "#if defined(_WIN32)",
      "void forward_softmax(void) { }",
      "int make_connected_layer(void) { return 1; }",
      "static int helper(void) { return 1; }",
      "typedef enum { RELU } ACTIVATION;",
      "typedef int cost_layer;",
      "typedef int sod_box;",
      "struct box { int w; };",
      "int anchors = 3;" }

Scenarios ==
    { <<"#define FOO 1", "#ifdef FOO", "int x;", "#endif">>,
      <<"#ifdef FOO", "#endif", "#ifdef FOO", "#endif">>,
      <<"#ifdef FOO", "int x;", "#else", "int x;", "#endif">>,
      <<"#ifdef FOO", "int x;", "#endif", "static int helper(void) { return 1; }">>,
      <<"int FOO(void) { return 1; }", "#define FOO 1">>,
      <<"#define FOO 1", "#define FOO 2">>,
      <<"int helper(void) { return 1; }", "int helper(void) { return 2; }">>,
      <<"#ifdef FOO", "#endif", "typedef int cost_layer;", "#ifdef FOO">>,
      <<"int make_connected_layer(void) { return 1; }", "#ifdef _WIN32", "#endif">>,
      <<"int make_connected_layer(void) { return 1; }", "#ifndef _WIN32", "#endif">>,
      <<"#define FOO 1", "#ifdef FOO", "#endif", "int make_connected_layer(void) { return 1; }">>,
      <<"#define S \"abc">>,
      <<"int make_connected_layer(void) { return 1; }", "#ifdef FOO", "void forward_softmax(void) { }", "#endif", "void backward_softmax(void) { }">>,
      <<"#ifdef FOO", "else", "#endif", "#ifdef FOO", "#endif">>,
      <<"#ifdef FOO", "endif", "else if (x)", "#endif">>,
      <<"void forward_softmax(void) { make_connected_layer(); }", "int make_connected_layer(void) { return 1; }">>,
      <<"#ifdef FOO", "#ifdef FOO", "#else", "#endif", "#else", "#endif", "#ifdef FOO", "#endif">>,
      <<"#ifdef FOO", "#else", "#endif", "void forward_softmax(void) { }", "#ifdef FOO">>,
      <<"int helper(int a) {", "if (a) return 1;", "else", "return 2; }">>,
      <<"void forward_softmax(void) {", "#ifdef FOO", "}">>,
      <<"void forward_softmax(void) { }", "int make_connected_layer(void) { return 1; }",
        "typedef enum { RELU } ACTIVATION;">> }

SeqsUpTo(S, n) == UNION {[1..k -> S] : k \in 0..n}

InsertAt(q, i, x) == SubSeq(q, 1, i - 1) \o <<x>> \o SubSeq(q, i, Len(q))

Inputs ==
    (SeqsUpTo(CoreLines, MaxLines) \ {<<>>})
    \cup {InsertAt(q[1], q[2], d) :
            q \in {r \in SeqsUpTo(CtxLines, MaxCtx) \X (1..(MaxCtx + 1)) : r[2] <= Len(r[1]) + 1},
            d \in DeclLines}
    \cup Scenarios

(***************************************************************************)
(* Elements and the two ordered dictionaries of the program.               *)
(***************************************************************************)
\* Element(name, type, content, start, end, deps); deps is a function of the
\* content (ElementDeps below) and is not stored
Element(name, type, content, start, end) ==
    [name |-> name, type |-> type, content |-> content, start |-> start, end |-> end]

NoComponent == ""

\* self.symbol_map[symbol] = {'type': ..., 'used_in': set()}: an existing key keeps
\* its place in the dictionary and loses its 'component'
SymbolPut(map, symbol, type) ==
    LET entry == [symbol |-> symbol, type |-> type, component |-> NoComponent, used_in |-> {}]
    IN  IF \E i \in 1..Len(map) : map[i].symbol = symbol
        THEN [i \in 1..Len(map) |-> IF map[i].symbol = symbol THEN entry ELSE map[i]]
        ELSE Append(map, entry)

_add_to_symbol_map(map, symbol, symbol_type) == SymbolPut(map, symbol, symbol_type)

RECURSIVE AddAllToSymbolMap(_, _, _)
AddAllToSymbolMap(map, elems, type) ==
    IF elems = <<>> THEN map
    ELSE AddAllToSymbolMap(_add_to_symbol_map(map, Head(elems).name, type), Tail(elems), type)

SymbolNames(map) == {map[i].symbol : i \in 1..Len(map)}

SymbolEntry(map, symbol) == map[CHOOSE i \in 1..Len(map) : map[i].symbol = symbol]

\* self.symbol_map[name]['component'] = component, under 'if name in self.symbol_map'
SymbolSetComponent(map, symbol, component) ==
    [i \in 1..Len(map) |->
        IF map[i].symbol = symbol THEN [map[i] EXCEPT !.component = component] ELSE map[i]]

\* byte offset (from 0) of line i (from 1) of the input
RECURSIVE LineOffset(_, _)
LineOffset(lines, i) == IF i = 1 THEN 0 ELSE LineOffset(lines, i - 1) + Len(lines[i - 1]) + 1

\* len('\n'.join(lines[:n]))
JoinedLen(lines, n) == IF n = 0 THEN 0 ELSE LineOffset(lines, n) + Len(lines[n])

(***************************************************************************)
(* extract_conditionals                                                    *)
(***************************************************************************)
IsSkippedStray(stripped) ==
    stripped = "endif" \/ stripped = "else" \/ StartsWith(stripped, "else if")

IsDirective(stripped) ==
    \/ StartsWith(stripped, "#if")
    \/ StartsWith(stripped, "#else")
    \/ StartsWith(stripped, "#elif")
    \/ StartsWith(stripped, "#endif")
    \/ StartsWith(stripped, "#ifdef")
    \/ StartsWith(stripped, "#ifndef")

\* the entry of directive_lines for line i (from 1), when it is a directive
DirectiveLine(i, stripped) ==
    IF ~IsSkippedStray(stripped) /\ IsDirective(stripped) THEN <<<<i - 1, stripped>>>> ELSE <<>>

\* directive_lines: pairs <<line number from 0, stripped line>>
RECURSIVE DirectiveLines(_, _)
DirectiveLines(lines, i) ==
    IF i > Len(lines) THEN <<>>
    ELSE DirectiveLine(i, Strip(lines[i])) \o DirectiveLines(lines, i + 1)

IsOpening(directive) ==
    \/ StartsWith(directive, "#if")
    \/ StartsWith(directive, "#ifdef")
    \/ StartsWith(directive, "#ifndef")

\* a stack counter that takes #else and #elif for the end of a block
NextStackBranch(directive, stack) ==
    IF IsOpening(directive) THEN stack + 1
    ELSE IF StartsWith(directive, "#e") THEN stack - 1
    ELSE stack

\* a stack counter that does not count the directives that open a nested block
NextStackNoNesting(directive, stack) ==
    IF StartsWith(directive, "#endif") THEN stack - 1 ELSE stack

\* the stack counter after a directive
NextStack(directive, stack) ==
    IF IsOpening(directive) THEN stack + 1
    ELSE IF StartsWith(directive, "#endif") THEN stack - 1
    ELSE stack

RECURSIVE FindBlockEnd(_, _, _)

FindBlockEndAt(dl, j, next_stack) ==
    IF next_stack = 0 THEN j ELSE FindBlockEnd(dl, j + 1, next_stack)

\* the inner while loop: the index j of the directive at which the stack returns
\* to zero, 0 when the directives end first
FindBlockEnd(dl, j, stack) ==
    IF j > Len(dl) THEN 0 ELSE FindBlockEndAt(dl, j, NextStack(dl[j][2], stack))

IsMultipart(dl, i, j) ==
    \E k \in i..j : StartsWith(dl[k][2], "#elif") \/ StartsWith(dl[k][2], "#else")

\* directive.split(' ', 1)[1] if ' ' in directive else 'condition'
ConditionOf(directive, sp) == IF sp > 0 THEN From(directive, sp + 1) ELSE "condition"

ConditionalName(dl, i, j) ==
    IF IsMultipart(dl, i, j)
    THEN "multipart_conditional_" \o ConditionOf(dl[i][2], IndexOf(dl[i][2], " "))
    ELSE "conditional"

AutoEndifUnterminated == "#endif /* Auto-added to fix unterminated conditional */"

\* the element of the lines context_start..context_end (from 0)
ContextElement(lines, name, context_start, context_end) ==
    Element(name, "conditional",
            JoinLines(SubSeq(lines, context_start + 1, context_end + 1)),
            JoinedLen(lines, context_start), JoinedLen(lines, context_end + 1))

\* a complete block: one line of context before and after
CompleteConditional(lines, dl, i, j) ==
    ContextElement(lines, ConditionalName(dl, i, j),
                   Max2(0, dl[i][1] - 1), Min2(Len(lines) - 1, dl[j][1] + 1))

\* an unterminated block taken as it is, without the #endif
OpenConditional(lines, dl, i) ==
    Element("conditional_fixed", "conditional",
            JoinLines(SubSeq(lines, dl[i][1] + 1, Len(lines))),
            JoinedLen(lines, dl[i][1]), TextLen(JoinLines(lines)))

\* an unterminated block: everything up to the end of the input and one #endif
FixedConditional(lines, dl, i) ==
    Element("conditional_fixed", "conditional",
            TextCat(JoinLines(SubSeq(lines, dl[i][1] + 1, Len(lines))),
                    <<"", AutoEndifUnterminated, "">>),
            JoinedLen(lines, dl[i][1]), TextLen(JoinLines(lines)))

RECURSIVE ConditionalsFrom(_, _, _)

WithConditional(elem, rest) == [elems |-> <<elem>> \o rest.elems, warnings |-> rest.warnings]

\* the block that opens at directive i and closes at directive j (0: it does not)
ConditionalsAt(lines, dl, i, j) ==
    IF j # 0
    THEN WithConditional(CompleteConditional(lines, dl, i, j), ConditionalsFrom(lines, dl, j + 1))
    ELSE [elems |-> <<FixedConditional(lines, dl, i)>>, warnings |-> 1]

\* the outer while loop from directive i on: the elements and the number of warnings
ConditionalsFrom(lines, dl, i) ==
    IF i > Len(dl) THEN [elems |-> <<>>, warnings |-> 0]
    ELSE IF StartsWith(dl[i][2], "#if")
    THEN ConditionalsAt(lines, dl, i, FindBlockEnd(dl, i + 1, 1))
    ELSE ConditionalsFrom(lines, dl, i + 1)

extract_conditionals(lines) == ConditionalsFrom(lines, DirectiveLines(lines, 1), 1)

(***************************************************************************)
(* The declaration regexes, matched within one line l.  Each gives the     *)
(* leftmost match as [name, from, to] (positions in l, inclusive), or      *)
(* NoMatch.                                                                *)
(***************************************************************************)
NoMatch == [name |-> "", from |-> 0, to |-> 0]

NameSemi(l, i, close, d, name) ==
    IF close # 0 /\ name # "" /\ At(l, d + Len(name), ";")
    THEN [name |-> name, from |-> i, to |-> d + Len(name)]
    ELSE NoMatch

NameSemiAfter(l, i, close) ==
    NameSemi(l, i, close, SkipSpace(l, close + 1), IdentAt(l, SkipSpace(l, close + 1)))

\* }(?:\s*)name;  after the brace that opens at position open: [name, to] part
BraceNameSemi(l, i, open) ==
    NameSemiAfter(l, i, IF open = 0 THEN 0 ELSE IndexFrom(l, "}", open + 1))

\* the position after the optional tag at c and the white space that follows it
AfterTag(l, c, tag) == IF tag = "" THEN c ELSE SkipSpace(l, c + Len(tag))

EnumOpen(l, i, b, open) ==
    IF At(l, i, "typedef") /\ b > i + 7 /\ At(l, b, "enum") /\ At(l, open, "{")
    THEN BraceNameSemi(l, i, open)
    ELSE NoMatch

EnumTagged(l, i, b, c) == EnumOpen(l, i, b, AfterTag(l, c, IdentAt(l, c)))

EnumFrom(l, i, b) == EnumTagged(l, i, b, SkipSpace(l, b + 4))

\* enum_block_regex / enum_regex:
\* typedef\s+enum\s*(?:[a-zA-Z_][a-zA-Z0-9_]*\s*)?{[^}]*}(?:\s*)([a-zA-Z_][a-zA-Z0-9_]*);
EnumAt(l, i) == EnumFrom(l, i, SkipSpace(l, i + 7))

\* the leftmost match of enum_regex in l
enum_regex(l) == EnumAt(l, MinOf({i \in 1..Len(l) : EnumAt(l, i).from # 0}))

TypedefStructOpen(l, i, b, c, tag, open) ==
    IF /\ At(l, i, "typedef") /\ b > i + 7 /\ At(l, b, "struct") /\ c > b + 6
       /\ (tag = "" \/ open > c + Len(tag)) /\ At(l, open, "{")
    THEN BraceNameSemi(l, i, open)
    ELSE NoMatch

TypedefStructTagged(l, i, b, c, tag) == TypedefStructOpen(l, i, b, c, tag, AfterTag(l, c, tag))

TypedefStructFrom(l, i, b, c) == TypedefStructTagged(l, i, b, c, IdentAt(l, c))

\* struct_regex, first alternative:
\* typedef\s+struct\s+(?:[a-zA-Z_][a-zA-Z0-9_]*\s+)?{[^}]*}(?:\s*)([a-zA-Z_][a-zA-Z0-9_]*);
TypedefStructAt(l, i) ==
    TypedefStructFrom(l, i, SkipSpace(l, i + 7), SkipSpace(l, SkipSpace(l, i + 7) + 6))

PlainStructClosed(l, i, b, name, open, close) ==
    IF /\ At(l, i, "struct") /\ b > i + 6 /\ name # "" /\ At(l, open, "{")
       /\ close # 0 /\ At(l, close + 1, ";")
    THEN [name |-> name, from |-> i, to |-> close + 1]
    ELSE NoMatch

PlainStructNamed(l, i, b, name, open) ==
    PlainStructClosed(l, i, b, name, open, IndexFrom(l, "}", open + 1))

PlainStructFrom(l, i, b, name) == PlainStructNamed(l, i, b, name, SkipSpace(l, b + Len(name)))

\* struct_regex, second alternative: struct\s+([a-zA-Z_][a-zA-Z0-9_]*)\s*{[^}]*};
PlainStructAt(l, i) == PlainStructFrom(l, i, SkipSpace(l, i + 6), IdentAt(l, SkipSpace(l, i + 6)))

FirstAlternative(m, l, i) == IF m.from # 0 THEN m ELSE PlainStructAt(l, i)

StructAt(l, i) == FirstAlternative(TypedefStructAt(l, i), l, i)

\* the leftmost match of struct_regex in l
struct_regex(l) == StructAt(l, MinOf({i \in 1..Len(l) : StructAt(l, i).from # 0}))

TypedefNamed(l, i, b, src, e, d, name) ==
    IF /\ At(l, i, "typedef") /\ b > i + 7
       /\ ~At(l, b, "struct") /\ ~At(l, b, "enum")
       /\ src # "" /\ d > e /\ name # "" /\ At(l, d + Len(name), ";")
    THEN [name |-> name, from |-> i, to |-> d + Len(name)]
    ELSE NoMatch

TypedefTo(l, i, b, src, e) ==
    TypedefNamed(l, i, b, src, e, SkipSpace(l, e), IdentAt(l, SkipSpace(l, e)))

\* the position after '(?:\s*\*)?' that follows the source type src at b
SourceEnd(l, b, src, star) == IF At(l, star, "*") THEN star + 1 ELSE b + Len(src)

TypedefOf(l, i, b, src) ==
    TypedefTo(l, i, b, src, SourceEnd(l, b, src, SkipSpace(l, b + Len(src))))

\* typedef_regex:
\* typedef\s+(?!struct|enum)([a-zA-Z_][a-zA-Z0-9_]*(?:\s*\*)?)\s+([a-zA-Z_][a-zA-Z0-9_]*);
TypedefAt(l, i) == TypedefOf(l, i, SkipSpace(l, i + 7), IdentAt(l, SkipSpace(l, i + 7)))

\* the leftmost match of typedef_regex in l
typedef_regex(l) == TypedefAt(l, MinOf({i \in 1..Len(l) : TypedefAt(l, i).from # 0}))

DefineNamed(l, i, b, name, close) ==
    IF At(l, i, "#define") /\ b > i + 7 /\ name # ""
    THEN [name |-> name, from |-> i, to |-> IF close # 0 THEN close ELSE b + Len(name) - 1]
    ELSE NoMatch

\* the end of '(?:\(([^)]*)\))?' at position e, 0 when it matches nothing
ParamsEnd(l, e) == IF At(l, e, "(") THEN IndexFrom(l, ")", e + 1) ELSE 0

DefineFrom(l, i, b, name) == DefineNamed(l, i, b, name, ParamsEnd(l, b + Len(name)))

\* define_pattern: (#define\s+([a-zA-Z_][a-zA-Z0-9_]*))(?:\(([^)]*)\))?
DefineAt(l, i) == DefineFrom(l, i, SkipSpace(l, i + 7), IdentAt(l, SkipSpace(l, i + 7)))

\* the leftmost match of define_pattern in l
define_pattern(l) == DefineAt(l, MinOf({i \in 1..Len(l) : DefineAt(l, i).from # 0}))

(***************************************************************************)
(* extract_enums, extract_structs, extract_typedefs, extract_macros        *)
(***************************************************************************)
\* s.strip() of a text
StripText(t) == SplitStr(Strip(JoinStr(t)))

\* the element of the match m in line i, which starts at offset off
LineElement(lines, i, m, off, type) ==
    IF m.from # 0
    THEN <<Element(m.name, type, <<Strip(SubSeq(lines[i], m.from, m.to))>>,
                   off + m.from - 1, off + m.to)>>
    ELSE <<>>

\* the leftmost match in l of the regex of a type of element
RegexOf(type, l) ==
    IF type = "enum" THEN enum_regex(l)
    ELSE IF type = "struct" THEN struct_regex(l)
    ELSE typedef_regex(l)

\* one element per line that the regex of the type matches; the content is the
\* matched text
RECURSIVE LineElements(_, _, _)
LineElements(lines, i, type) ==
    IF i > Len(lines) THEN <<>>
    ELSE LineElement(lines, i, RegexOf(type, lines[i]), LineOffset(lines, i), type)
         \o LineElements(lines, i + 1, type)

extract_enums(lines) == LineElements(lines, 1, "enum")

extract_structs(lines) == LineElements(lines, 1, "struct")

extract_typedefs(lines) == LineElements(lines, 1, "typedef")

\* last line (from 1) of the macro that starts on line i: a line that ends with a
\* backslash continues on the next one
RECURSIVE MacroLastLine(_, _)
MacroLastLine(lines, i) ==
    IF i < Len(lines) /\ EndsWith(Strip(lines[i]), "\\") THEN MacroLastLine(lines, i + 1) ELSE i

\* the element of the match m in line i, which starts at offset off; the macro
\* ends with line k
MacroElement(lines, i, m, off, k) ==
    IF m.from # 0
    THEN <<Element(m.name, "macro",
                   StripText(<<From(lines[i], m.from)>> \o SubSeq(lines, i + 1, k)),
                   off + m.from - 1, LineOffset(lines, k) + Len(lines[k]) + 1)>>
    ELSE <<>>

RECURSIVE MacrosFrom(_, _)
MacrosFrom(lines, i) ==
    IF i > Len(lines) THEN <<>>
    ELSE MacroElement(lines, i, define_pattern(lines[i]), LineOffset(lines, i),
                      MacroLastLine(lines, i))
         \o MacrosFrom(lines, i + 1)

extract_macros(lines) == MacrosFrom(lines, 1)

(***************************************************************************)
(* extract_functions: function_regex over the whole input S                *)
(***************************************************************************)
\* greatest position <= i that is not white space, 0 when none
RECURSIVE BackSpace(_, _)
BackSpace(S, i) == IF i >= 1 /\ Ch(S, i) \in SpaceChars THEN BackSpace(S, i - 1) ELSE i

\* least position r >= lo with S[r..i] all in the class C
RECURSIVE BackRun(_, _, _, _)
BackRun(S, i, lo, C) == IF i >= lo /\ Ch(S, i) \in C THEN BackRun(S, i - 1, lo, C) ELSE i + 1

\* [^{;]*?\)\s*{ from position q: the position of the brace, 0 when no match
RECURSIVE ParamClose(_, _)
ParamClose(S, q) ==
    IF q > Len(S) \/ Ch(S, q) \in {"{", ";"} THEN 0
    ELSE IF Ch(S, q) = ")" /\ At(S, SkipSpace(S, q + 1), "{") THEN SkipSpace(S, q + 1)
    ELSE ParamClose(S, q + 1)

RECURSIVE BodyEnd(_, _, _)

BodyEndAt(S, pos, n) == IF n = 0 THEN pos ELSE BodyEnd(S, pos + 1, n)

\* the brace counter: position of the brace that closes the body, 0 when the
\* input ends first
BodyEnd(S, pos, opening_braces) ==
    IF pos > Len(S) THEN 0
    ELSE BodyEndAt(S, pos, opening_braces + BraceValue(Ch(S, pos)))

FunctionMatch(S, lo, name_start, name_end, from, brace) ==
    IF /\ name_start # 0 /\ name_start <= name_end
       /\ Ch(S, name_start) \in LetterChars
       /\ name_start > lo /\ Ch(S, name_start - 1) \in SpaceChars
       /\ from # 0 /\ name_start - from >= 3
       /\ brace # 0
    THEN [name |-> SubSeq(S, name_start, name_end), from |-> from, to |-> brace]
    ELSE NoMatch

\* the first letter of the run of type characters run..name_start - 1
TypeStart(S, run, name_start) ==
    IF run = 0 THEN 0 ELSE MinOf({i \in run..(name_start - 1) : Ch(S, i) \in LetterChars})

FunctionNamed(S, p, lo, name_start, name_end) ==
    FunctionMatch(S, lo, name_start, name_end,
                  TypeStart(S, IF name_start > lo THEN BackRun(S, name_start - 1, lo, TypeChars)
                               ELSE 0, name_start),
                  ParamClose(S, p + 1))

FunctionEnding(S, p, lo, name_end) ==
    FunctionNamed(S, p, lo, IF name_end >= lo THEN BackRun(S, name_end, lo, WordChars) ELSE 0,
                  name_end)

\* the match of function_regex whose parameter list opens at position p, when the
\* search may not start before position lo
FunctionAt(S, p, lo) == FunctionEnding(S, p, lo, BackSpace(S, p - 1))

FunctionSkipWarning(name) ==
    "Warning: Could not find end of function " \o name \o " within safety limit. Skipping."

RECURSIVE FunctionsFrom(_, _, _)

\* the function of the match m, whose body closes at position close (0: it does
\* not), before the functions of the rest of the input
WithFunction(S, m, close, rest) ==
    IF close = 0
    THEN [elems |-> rest.elems, warnings |-> <<FunctionSkipWarning(m.name)>> \o rest.warnings]
    ELSE [elems |-> <<Element(m.name, "function", SplitStr(Strip(SubSeq(S, m.from, close))),
                              m.from - 1, close)>> \o rest.elems,
          warnings |-> rest.warnings]

FunctionsMatched(S, last, p, m) ==
    IF m.from = 0 THEN FunctionsFrom(S, p + 1, last)
    ELSE WithFunction(S, m, BodyEnd(S, m.to + 1, 1), FunctionsFrom(S, m.to + 1, m.to))

FunctionsAt(S, last, p) ==
    IF p = 0 THEN [elems |-> <<>>, warnings |-> <<>>]
    ELSE FunctionsMatched(S, last, p, FunctionAt(S, p, last + 1))

\* finditer from position from on, when the last match ended at position last
FunctionsFrom(S, from, last) == FunctionsAt(S, last, IndexFrom(S, "(", from))

extract_functions(lines) == FunctionsFrom(JoinStr(lines), 1, 0)

(***************************************************************************)
(* extract_globals: global_regex over the whole input S                    *)
(***************************************************************************)
\* the starts from which every word up to the name begins with a letter
GlobalStarts(S, run, name_start) ==
    {i \in run..(name_start - 1) :
        /\ Ch(S, i) \notin CharsOf(DigitStr)
        /\ \A j \in (i + 1)..(name_start - 1) :
               Ch(S, j) \in CharsOf(DigitStr) => Ch(S, j - 1) \in WordChars
        /\ \E j \in i..(name_start - 1) : Ch(S, j) \in LetterChars}

GlobalMatch(S, p, lo, name_start, name_end, run, starts) ==
    IF /\ name_start # 0 /\ name_start <= name_end
       /\ Ch(S, name_start) \in LetterChars
       /\ name_start > lo /\ Ch(S, name_start - 1) \in SpaceChars
       /\ run # 0 /\ starts # {}
    THEN [name |-> SubSeq(S, name_start, name_end), from |-> MinOf(starts), to |-> p]
    ELSE NoMatch

GlobalRun(S, p, lo, name_start, name_end, run) ==
    GlobalMatch(S, p, lo, name_start, name_end, run, GlobalStarts(S, run, name_start))

GlobalNamed(S, p, lo, name_start, name_end) ==
    GlobalRun(S, p, lo, name_start, name_end,
              IF name_start > lo THEN BackRun(S, name_start - 1, lo, WordChars \cup SpaceChars)
              ELSE 0)

GlobalEnding(S, p, lo, name_end) ==
    GlobalNamed(S, p, lo, IF name_end >= lo THEN BackRun(S, name_end, lo, WordChars) ELSE 0,
                name_end)

\* the '[' of the array size that ends at position b, 0 when none ends there
SizeOpen(S, lo, b) ==
    IF b >= lo /\ Ch(S, b) = "]" THEN LastIndexOf(SubSeq(S, 1, b), "[") ELSE 0

\* the end of the name: before the array size open..b when there is one
NameEnd(S, lo, b, open) ==
    IF open >= lo /\ open # 0 /\ ~Contains(SubSeq(S, open + 1, b - 1), "]")
    THEN BackSpace(S, open - 1) ELSE b

GlobalBefore(S, p, lo, b) == GlobalEnding(S, p, lo, NameEnd(S, lo, b, SizeOpen(S, lo, b)))

\* the match of global_regex whose '=' is at position p, when the search may not
\* start before position lo: [name, from, to]
GlobalAt(S, p, lo) == GlobalBefore(S, p, lo, BackSpace(S, p - 1))

GlobalWith(m, line_end, global_content) ==
    IF line_end # 0 /\ (~Contains(global_content, "(") \/ ~Contains(global_content, ")"))
    THEN <<Element(m.name, "global", SplitStr(global_content), m.from - 1, line_end)>>
    ELSE <<>>

\* the element of the match m, up to the next ';' at line_end
GlobalElement(S, m, line_end) == GlobalWith(m, line_end, Strip(SubSeq(S, m.from, line_end)))

RECURSIVE GlobalsFrom(_, _, _)

GlobalsMatched(S, last, p, m) ==
    IF m.from = 0 THEN GlobalsFrom(S, p + 1, last)
    ELSE GlobalElement(S, m, IndexFrom(S, ";", p + 1)) \o GlobalsFrom(S, p + 1, p)

GlobalsAt(S, last, p) ==
    IF p = 0 THEN <<>> ELSE GlobalsMatched(S, last, p, GlobalAt(S, p, last + 1))

GlobalsFrom(S, from, last) == GlobalsAt(S, last, IndexFrom(S, "=", from))

extract_globals(lines) == GlobalsFrom(JoinStr(lines), 1, 0)

(***************************************************************************)
(* The static configuration.                                               *)
(***************************************************************************)
COMMON_TYPES ==
    << "network", "layer", "tree", "box", "sod_cnn", "sod_img", "sod_box",
       "sod_pts", "SyBlob", "SySet", "SyString", "sod_vfs",
       "sod_label_coord", "sod_config_layer", "IplImage", "CvCapture",
       "local_layer", "cost_layer", "avgpool_layer", "connected_layer",
       "convolutional_layer", "detection_layer", "dropout_layer",
       "maxpool_layer", "route_layer", "softmax_layer", "crop_layer",
       "network_state", "size_params", "HANDLE", "WIN32_FIND_DATAW" >>

COMMON_ENUMS ==
    << "SOD_CNN_LAYER_TYPE", "ACTIVATION", "COST_TYPE", "learning_rate_policy",
       "SOD_REALNET_NET_TYPE", "SOD_TR_SAMPLE_TYPE" >>

REQUIRED_CONSTANTS ==
    << "SOD_OK", "SOD_UNSUPPORTED", "SOD_OUTOFMEM", "SOD_ABORT",
       "SOD_IOERR", "SOD_LIMIT", "SOD_APIEXPORT", "MIN", "MAX", "TWO_PI" >>

STANDARD_HEADERS ==
    << "<stdlib.h>", "<stdint.h>", "<stddef.h>", "<string.h>", "<math.h>",
       "<float.h>", "<stdio.h>" >>

\* the text of SOD_API_EXPORT_MACRO
SOD_API_EXPORT_MACRO ==
    << "",
       "/* Define SOD API export macro if not already defined */",
       "#ifndef SOD_APIEXPORT",
       "#ifdef _WIN32",
       "  #ifdef SOD_STATIC",
       "    #define SOD_APIEXPORT ",
       "  #else",
       "    #ifdef SOD_BUILD",
       "      #define SOD_APIEXPORT __declspec(dllexport)",
       "    #else",
       "      #define SOD_APIEXPORT __declspec(dllimport)",
       "    #endif",
       "  #endif",
       "#else",
       "  #define SOD_APIEXPORT",
       "#endif",
       "#endif /* SOD_APIEXPORT */",
       "" >>

\* the text of REQUIRED_TYPEDEFS
REQUIRED_TYPEDEFS ==
    << "",
       "/* Basic SOD data types */",
       "typedef int sod_status;",
       "",
       "/* Function pointer types */",
       "typedef void (*ProcRnnCallback)(void *, int, float);",
       "typedef void (*ProcLogCallback)(void *, int, const char *);",
       "typedef int (*ProcLayerLoad)(void *, const char *);",
       "typedef int (*ProcLayerExec)(void *, int);",
       "typedef void (*ProcLayerRelease)(void *);",
       "" >>

\* x in list
InList(x, list) == \E i \in 1..Len(list) : list[i] = x

(***************************************************************************)
(* The classification cascades.                                            *)
(***************************************************************************)
AnyIn(parts, s) == \E x \in parts : Contains(s, x)

AnyPrefix(parts, s) == \E x \in parts : StartsWith(s, x)

_determine_function_component(func_name, content_) ==
    IF StartsWith(func_name, "forward_") \/ StartsWith(func_name, "backward_")
    THEN CASE Contains(func_name, "softmax") -> "softmax_impl"
           [] Contains(func_name, "batchnorm") -> "batchnorm_impl"
           [] Contains(func_name, "connected") -> "connected_impl"
           [] Contains(func_name, "convolutional") -> "convolutional"
           [] Contains(func_name, "local") -> "local_layer"
           [] Contains(func_name, "cost") -> "cost_layer"
           [] Contains(func_name, "route") -> "route_layer"
           [] OTHER -> "nn_utils"
    ELSE IF StartsWith(func_name, "make_")
    THEN CASE Contains(func_name, "softmax") -> "softmax_impl"
           [] Contains(func_name, "batchnorm") -> "batchnorm_impl"
           [] Contains(func_name, "connected") -> "connected_impl"
           [] Contains(func_name, "local") -> "local_layer"
           [] Contains(func_name, "cost") -> "cost_layer"
           [] Contains(func_name, "route") -> "route_layer"
           [] OTHER -> "nn_utils"
    ELSE IF AnyPrefix({"relu_", "logistic_", "tanh_", "elu_", "leaky_", "activate", "gradient",
                       "stair_", "hardtan_", "lhtan_", "relie_", "ramp_", "plse_", "loggy_"},
                      func_name)
    THEN "activation"
    ELSE IF AnyPrefix({"SyBlob", "SySet", "SyString"}, func_name) THEN "data_structures"
    ELSE IF AnyPrefix({"UnixVfs", "WinVfs", "UnixDir", "WinDir"}, func_name) THEN "vfs"
    ELSE IF Contains(Lower(func_name), "box") THEN "box_utils"
    ELSE IF AnyIn({"img", "image"}, Lower(func_name)) THEN "img_utils"
    ELSE IF EndsWith(func_name, "_cpu") THEN "cpu_utils"
    ELSE IF AnyIn({"rnn", "gru", "lstm"}, Lower(func_name)) THEN "rnn"
    ELSE IF Contains(Lower(func_name), "cnn") THEN "cnn"
    ELSE IF AnyIn({"detect", "realnet"}, Lower(func_name)) THEN "detection"
    ELSE IF AnyPrefix({"parse_", "option_", "load_"}, func_name) THEN "cfg_parser"
    ELSE "nn_utils"

_determine_struct_component(struct_name, content_) ==
    IF struct_name \in {"layer", "network", "network_state", "size_params"} THEN "nn_types"
    ELSE IF struct_name \in {"SyBlob", "SySet", "SyString"} THEN "data_structures"
    ELSE IF struct_name = "box" \/ Contains(Lower(struct_name), "box") THEN "box_utils"
    ELSE IF AnyIn({"img", "image"}, Lower(struct_name)) THEN "img_utils"
    ELSE IF Contains(Lower(struct_name), "vfs") THEN "vfs"
    ELSE IF Contains(Lower(struct_name), "cnn") THEN "cnn"
    ELSE IF AnyIn({"detect", "realnet"}, Lower(struct_name)) THEN "detection"
    ELSE IF AnyIn({"config", "list", "section", "node"}, Lower(struct_name)) THEN "cfg_parser"
    ELSE "data_structures"

_determine_global_component(global_name, content_) ==
    IF AnyIn({"weights", "biases", "scales", "rolling", "adam"}, global_name) THEN "nn_utils"
    ELSE IF AnyIn({"activate", "gradient"}, global_name) THEN "activation"
    ELSE IF AnyIn({"img", "image", "pixel"}, Lower(global_name)) THEN "img_utils"
    ELSE IF AnyIn({"detect", "box", "anchor"}, Lower(global_name)) THEN "detection"
    ELSE IF AnyIn({"file", "dir", "path"}, Lower(global_name)) THEN "vfs"
    ELSE IF Contains(Lower(global_name), "cnn") THEN "cnn"
    ELSE "common"

_determine_enum_component(enum_name, content_) ==
    IF AnyIn({"ACTIVATION", "COST_TYPE", "layer_type"}, enum_name) THEN "nn_types"
    ELSE IF Contains(enum_name, "CNN") THEN "cnn"
    ELSE IF AnyIn({"REALNET", "TR_SAMPLE"}, enum_name) THEN "detection"
    ELSE "common"

_determine_typedef_component(typedef_name, content_) ==
    IF AnyIn({"network", "layer", "cost", "activation"}, typedef_name) THEN "nn_types"
    ELSE IF AnyIn({"Sy", "blob", "set", "string"}, typedef_name) THEN "data_structures"
    ELSE IF AnyIn({"img", "image", "ipl"}, Lower(typedef_name)) THEN "img_utils"
    ELSE IF AnyIn({"detect", "box", "pts"}, Lower(typedef_name)) THEN "detection"
    ELSE IF AnyIn({"vfs", "file", "dir"}, Lower(typedef_name)) THEN "vfs"
    ELSE "common"

_determine_macro_component(macro_name, content_) ==
    IF InList(macro_name, REQUIRED_CONSTANTS) THEN "common"
    ELSE IF AnyIn({"LAYER", "ACTIVATION", "WEIGHT"}, macro_name) THEN "nn_types"
    ELSE IF AnyIn({"img", "image", "pixel"}, Lower(macro_name)) THEN "img_utils"
    ELSE IF AnyIn({"BOX", "DETECT", "CNN"}, macro_name) THEN "detection"
    ELSE IF AnyIn({"FILE", "DIR", "PATH"}, macro_name) THEN "vfs"
    ELSE "common"

\* _map_enums without the branch of COMMON_ENUMS
EnumComponentCascade(name, content_) == _determine_enum_component(name, content_)

\* _map_typedefs with the branch of COMMON_TYPES ahead of the one of '_layer'
TypedefComponentCommonFirst(name, content_) ==
    IF InList(name, COMMON_TYPES) THEN "common"
    ELSE IF EndsWith(name, "_layer") THEN "nn_types"
    ELSE _determine_typedef_component(name, content_)

\* the branches of _map_enums, _map_typedefs and _map_macros that come before the cascade
EnumComponent(name, content_) ==
    IF InList(name, COMMON_ENUMS) THEN "common" ELSE _determine_enum_component(name, content_)

TypedefComponent(name, content_) ==
    IF EndsWith(name, "_layer") THEN "nn_types"
    ELSE IF InList(name, COMMON_TYPES) THEN "common"
    ELSE _determine_typedef_component(name, content_)

MacroComponent(name, content_) ==
    IF InList(name, REQUIRED_CONSTANTS) THEN "common" ELSE _determine_macro_component(name, content_)

(***************************************************************************)
(* output_files: an ordered dictionary, the sequence of [key, elements]    *)
(***************************************************************************)
Keys(out) == {out[i].key : i \in 1..Len(out)}

ElementsOf(out, key) ==
    IF key \in Keys(out) THEN out[CHOOSE i \in 1..Len(out) : out[i].key = key].elements ELSE <<>>

\* self.output_files[component].append(elem)
OutputAppend(out, component, elem) ==
    IF component \in Keys(out)
    THEN [i \in 1..Len(out) |->
            IF out[i].key = component
            THEN [out[i] EXCEPT !.elements = Append(@, elem)] ELSE out[i]]
    ELSE Append(out, [key |-> component, elements |-> <<elem>>])

\* the component of an element, as the loop for its type determines it
ComponentOf(elem) ==
    IF elem.type = "function" THEN _determine_function_component(elem.name, elem.content)
    ELSE IF elem.type = "struct" THEN _determine_struct_component(elem.name, elem.content)
    ELSE IF elem.type = "enum" THEN EnumComponent(elem.name, elem.content)
    ELSE IF elem.type = "typedef" THEN TypedefComponent(elem.name, elem.content)
    ELSE IF elem.type = "global" THEN _determine_global_component(elem.name, elem.content)
    ELSE MacroComponent(elem.name, elem.content)

\* self.output_files[component].append(elem); self.symbol_map[name]['component'] = component
MapElement(elem, component, out, map) ==
    [output_files |-> OutputAppend(out, component, elem),
     symbol_map |-> SymbolSetComponent(map, elem.name, component)]

\* the loop of _map_functions .. _map_macros over the elements of one type
RECURSIVE MapElements(_, _)
MapElements(elems, mapped) ==
    IF elems = <<>> THEN mapped
    ELSE MapElements(Tail(elems),
                     MapElement(Head(elems), ComponentOf(Head(elems)),
                                mapped.output_files, mapped.symbol_map))

_map_functions(funcs, out, map) ==
    MapElements(funcs, [output_files |-> out, symbol_map |-> map])

_map_structs(structs_, out, map) ==
    MapElements(structs_, [output_files |-> out, symbol_map |-> map])

_map_enums(enums_, out, map) ==
    MapElements(enums_, [output_files |-> out, symbol_map |-> map])

_map_typedefs(typedefs_, out, map) ==
    MapElements(typedefs_, [output_files |-> out, symbol_map |-> map])

\* a mapping that leaves the elements of a kind out
MapNone(elems, out, map) == [output_files |-> out, symbol_map |-> map]

_map_globals(globals_, out, map) ==
    MapElements(globals_, [output_files |-> out, symbol_map |-> map])

_map_macros(macros_, out, map) ==
    MapElements(macros_, [output_files |-> out, symbol_map |-> map])

(***************************************************************************)
(* _map_conditionals                                                       *)
(***************************************************************************)
\* re.sub(r'#if\w*\s+', '', s)
RECURSIVE SubIfDirective(_)
SubIfDirective(s) ==
    LET hits == {i \in 1..Len(s) :
                    /\ At(s, i, "#if")
                    /\ WordEnd(s, i + 3) < Len(s)
                    /\ Ch(s, WordEnd(s, i + 3) + 1) \in SpaceChars}
    IN  IF hits = {} THEN s
        ELSE LET i == CHOOSE h \in hits : \A j \in hits : h <= j
             IN  SubSeq(s, 1, i - 1)
                 \o SubIfDirective(From(s, SkipSpace(s, WordEnd(s, i + 3) + 1)))

_are_conditions_similar(condition1, condition2) ==
    LET c1 == SubIfDirective(condition1)
        c2 == SubIfDirective(condition2)
        platforms == {"_WIN32", "__APPLE__", "__linux__", "_MSC_VER",
                      "OS_WIN", "OS_UNIX", "OS_OTHER"}
        features == {"HAVE_", "USE_", "ENABLE_", "CONFIG_", "WITH_"}
    IN  \/ c1 = c2
        \/ AnyIn(platforms, c1) /\ AnyIn(platforms, c2)
        \/ AnyPrefix(features, c1) /\ AnyPrefix(features, c2)
        \/ StartsWith(c1, "!") /\ From(c1, 2) = c2
        \/ StartsWith(c2, "!") /\ From(c2, 2) = c1

\* content.strip().split('\n')[0].strip()
FirstLine(content_) == Strip(Head(StripText(content_)))

InAnyGroup(groups, conditional) ==
    \E g \in 1..Len(groups) : \E k \in 1..Len(groups[g]) : groups[g][k] = conditional

Abs(n) == IF n < 0 THEN -n ELSE n

\* the loop 'for other in conditionals' that fills the group opened last
RECURSIVE RelatedInto(_, _, _, _)
RelatedInto(groups, conditionals, conditional, k) ==
    IF k > Len(conditionals) THEN groups
    ELSE LET other == conditionals[k]
             related ==
                 /\ other # conditional
                 /\ ~InAnyGroup(groups, other)
                 /\ Abs(conditional.start - other.start) < 1000
                 /\ _are_conditions_similar(FirstLine(conditional.content),
                                            FirstLine(other.content))
         IN  RelatedInto(IF related
                         THEN [groups EXCEPT ![Len(groups)] = Append(@, other)]
                         ELSE groups,
                         conditionals, conditional, k + 1)

\* the loop 'for conditional in conditionals' of a name group that is not multipart
RECURSIVE RegularGroups(_, _, _)
RegularGroups(groups, conditionals, k) ==
    IF k > Len(conditionals) THEN groups
    ELSE IF InAnyGroup(groups, conditionals[k])
    THEN RegularGroups(groups, conditionals, k + 1)
    ELSE RegularGroups(RelatedInto(Append(groups, <<conditionals[k]>>),
                                   conditionals, conditionals[k], 1),
                       conditionals, k + 1)

RECURSIVE NameGroups(_, _)
NameGroups(conds, groups) ==
    IF conds = <<>> THEN groups
    ELSE NameGroups(Tail(conds), OutputAppend(groups, Head(conds).name, Head(conds)))

RECURSIVE GroupsOfNames(_, _)
GroupsOfNames(name_groups, groups) ==
    IF name_groups = <<>> THEN groups
    ELSE LET g == Head(name_groups)
         IN  GroupsOfNames(Tail(name_groups),
                           IF StartsWith(g.key, "multipart_conditional_")
                           THEN Append(groups, g.elements)
                           ELSE RegularGroups(groups, g.elements, 1))

\* the values of conditional_groups, in the order of their group ids
_group_related_conditionals(conds) == GroupsOfNames(NameGroups(conds, <<>>), <<>>)

\* re.search(r'#if\s+defined\s*\(\s*(names)\s*\)', S)
DefinedCheck(S, names) ==
    \E i \in 1..Len(S) :
        /\ At(S, i, "#if")
        /\ SkipSpace(S, i + 3) > i + 3
        /\ At(S, SkipSpace(S, i + 3), "defined")
        /\ LET p == SkipSpace(S, SkipSpace(S, i + 3) + 7)
           IN  /\ At(S, p, "(")
               /\ \E n \in names :
                    /\ At(S, SkipSpace(S, p + 1), n)
                    /\ At(S, SkipSpace(S, SkipSpace(S, p + 1) + Len(n)), ")")

\* group(2) of re.search(r'#if(n)?def\s+([a-zA-Z_][a-zA-Z0-9_]*)', S), "" without a match
CheckedMacro(S) ==
    LET NameAt(i) ==
            LET e == IF At(S, i, "#ifdef") THEN i + 6
                     ELSE IF At(S, i, "#ifndef") THEN i + 7 ELSE 0
            IN  IF e # 0 /\ SkipSpace(S, e) > e THEN IdentAt(S, SkipSpace(S, e)) ELSE ""
        hits == {i \in 1..Len(S) : NameAt(i) # ""}
    IN  IF hits = {} THEN "" ELSE NameAt(CHOOSE h \in hits : \A j \in hits : h <= j)

\* the platform rules alone
ForcedByPlatform(conditional, map) ==
    IF DefinedCheck(JoinStr(conditional.content),
                    {"_WIN32", "__APPLE__", "__linux__", "_MSC_VER", "OS_WIN", "OS_UNIX", "OS_OTHER"})
    THEN "common" ELSE NoComponent

\* what one conditional forces: the component, or NoComponent
ForcedBy(conditional, map) ==
    LET S == JoinStr(conditional.content)
        macro_name == CheckedMacro(S)
    IN  IF DefinedCheck(S, {"_WIN32", "__APPLE__", "__linux__", "_MSC_VER"}) THEN "common"
        ELSE IF DefinedCheck(S, {"OS_WIN", "OS_UNIX", "OS_OTHER"}) THEN "common"
        ELSE IF macro_name # "" /\ macro_name \in SymbolNames(map)
                /\ SymbolEntry(map, macro_name).component # NoComponent
        THEN SymbolEntry(map, macro_name).component
        ELSE NoComponent

\* component_votes[component] += 1, a Counter in insertion order
Vote(votes, component) ==
    IF \E i \in 1..Len(votes) : votes[i].component = component
    THEN [i \in 1..Len(votes) |->
            IF votes[i].component = component
            THEN [votes[i] EXCEPT !.count = @ + 1] ELSE votes[i]]
    ELSE Append(votes, [component |-> component, count |-> 1])

RECURSIVE SymbolVotes(_, _, _, _)
SymbolVotes(votes, S, map, k) ==
    IF k > Len(map) THEN votes
    ELSE SymbolVotes(IF Contains(S, map[k].symbol) /\ map[k].component # NoComponent
                     THEN Vote(votes, map[k].component) ELSE votes,
                     S, map, k + 1)

\* the component that was voted for first
FirstVoted(votes) == votes[1].component

\* most_common(1)[0][0]: the first inserted among the components of the highest count
MostCommon(votes) ==
    votes[CHOOSE i \in 1..Len(votes) :
            /\ \A j \in 1..Len(votes) : votes[j].count <= votes[i].count
            /\ \A j \in 1..(i - 1) : votes[j].count < votes[i].count].component

\* the loop over the conditionals of one group: the component of the group
RECURSIVE GroupComponent(_, _, _, _)
GroupComponent(conditionals, k, votes, map) ==
    IF k > Len(conditionals)
    THEN IF votes # <<>> THEN MostCommon(votes) ELSE "common"
    ELSE LET forced_component == ForcedBy(conditionals[k], map)
         IN  IF forced_component # NoComponent THEN forced_component
             ELSE GroupComponent(conditionals, k + 1,
                                 SymbolVotes(votes, JoinStr(conditionals[k].content), map, 1),
                                 map)

RECURSIVE AppendAll(_, _, _)
AppendAll(out, component, elems) ==
    IF elems = <<>> THEN out
    ELSE AppendAll(OutputAppend(out, component, Head(elems)), component, Tail(elems))

RECURSIVE MapGroups(_, _, _)
MapGroups(groups, out, map) ==
    IF groups = <<>> THEN out
    ELSE MapGroups(Tail(groups),
                   AppendAll(out, GroupComponent(Head(groups), 1, <<>>, map), Head(groups)),
                   map)

_map_conditionals(conds, out, map) == MapGroups(_group_related_conditionals(conds), out, map)

\* list.sort(key=lambda x: x.start): stable
RECURSIVE SortByStart(_)
SortByStart(elems) ==
    IF Len(elems) <= 1 THEN elems
    ELSE LET sorted == SortByStart(Front(elems))
             x == Last(elems)
             n == Cardinality({i \in 1..Len(sorted) : sorted[i].start <= x.start})
         IN  SubSeq(sorted, 1, n) \o <<x>> \o SubSeq(sorted, n + 1, Len(sorted))

SortAll(out) == [i \in 1..Len(out) |-> [out[i] EXCEPT !.elements = SortByStart(@)]]

\* _analyze_module_dependencies: the pairs <<module, module it depends on>>
ModuleDependencies(map, deps) ==
    deps \cup UNION {{<<component, map[k].component>> :
                        component \in map[k].used_in \ {map[k].component}} :
                     k \in {j \in 1..Len(map) : map[j].component # NoComponent}}

(***************************************************************************)
(* create_output_files: the texts of the generated files                   *)
(***************************************************************************)
\* s + '\n'
Ln(s) == <<s, "">>

RECURSIVE TextCatAll(_)
TextCatAll(texts) ==
    IF texts = <<>> THEN EmptyText ELSE TextCat(Head(texts), TextCatAll(Tail(texts)))

\* the matches of r'#if\b|#ifdef\b|#ifndef\b' and of r'#endif\b' in one line
OpenIn(line) ==
    IF Contains(line, "#if")
    THEN CountWord(line, "#if") + CountWord(line, "#ifdef") + CountWord(line, "#ifndef")
    ELSE 0

CloseIn(line) == IF Contains(line, "#endif") THEN CountWord(line, "#endif") ELSE 0

\* the matches in the lines from..to of a text: those of its first half and
\* those of its second
RECURSIVE OpenFrom(_, _, _)
OpenFrom(t, from, to) ==
    IF from > to THEN 0
    ELSE IF from = to THEN OpenIn(t[from])
    ELSE OpenFrom(t, from, (from + to) \div 2) + OpenFrom(t, (from + to) \div 2 + 1, to)

RECURSIVE CloseFrom(_, _, _)
CloseFrom(t, from, to) ==
    IF from > to THEN 0
    ELSE IF from = to THEN CloseIn(t[from])
    ELSE CloseFrom(t, from, (from + to) \div 2) + CloseFrom(t, (from + to) \div 2 + 1, to)

\* len(re.findall(r'#if\b|#ifdef\b|#ifndef\b', text)) and len(re.findall(r'#endif\b', text))
OpenDirectives(t) == OpenFrom(t, 1, Len(t))

CloseDirectives(t) == CloseFrom(t, 1, Len(t))

RECURSIVE Repeat(_, _)
Repeat(t, n) == IF n <= 0 THEN EmptyText ELSE TextCat(t, Repeat(t, n - 1))

EndOfCondition == <<"", "#endif /* End of condition */", "">>

\* the content with one '#endif /* End of condition */' per missing #endif
CloseConditional(content_) ==
    TextCat(content_, Repeat(EndOfCondition, OpenDirectives(content_) - CloseDirectives(content_)))

\* _extract_module_definitions
RECURSIVE EnumDefinitions(_)
EnumDefinitions(elems) ==
    IF elems = <<>> THEN EmptyText
    ELSE TextCat(IF Head(elems).type = "enum"
                 THEN TextCat(Head(elems).content, <<"", "", "">>) ELSE EmptyText,
                 EnumDefinitions(Tail(elems)))

_extract_module_definitions(out, module_name) == EnumDefinitions(ElementsOf(out, module_name))

RECURSIVE MatchedTexts(_, _)

MatchedFrom(type, l, m) ==
    IF m.from = 0 THEN {}
    ELSE {SubSeq(l, m.from, m.to)} \cup MatchedTexts(type, From(l, m.to + 1))

\* the texts that the regex of the type matches in the line l
MatchedTexts(type, l) == MatchedFrom(type, l, RegexOf(type, l))

\* the declarations that the struct, enum and typedef regexes find in a conditional
Declarations(content_) ==
    UNION {MatchedTexts("struct", content_[i]) \cup MatchedTexts("enum", content_[i])
             \cup MatchedTexts("typedef", content_[i]) : i \in 1..Len(content_)}

\* the lines of a conditional that go to the header: the directives, and inside
\* them the lines that hold a declaration
RECURSIVE DeclarationLines(_, _, _)
DeclarationLines(lines, in_directive, decls) ==
    IF lines = <<>> THEN <<>>
    ELSE LET line == Head(lines)
             stripped == Strip(line)
         IN  IF StartsWith(stripped, "#")
             THEN <<line>> \o DeclarationLines(Tail(lines),
                                               IF StartsWith(stripped, "#if") THEN TRUE
                                               ELSE IF StartsWith(stripped, "#endif") THEN FALSE
                                               ELSE in_directive,
                                               decls)
             ELSE (IF in_directive /\ \E decl \in decls : Contains(line, decl)
                   THEN <<line>> ELSE <<>>)
                  \o DeclarationLines(Tail(lines), in_directive, decls)

\* does the header branch of a conditional rebind header_content to a list
HasDeclarations(elem) == elem.type = "conditional" /\ Declarations(elem.content) # {}

\* decl of a function: the text before the first '{', stripped, and ';'
FunctionDeclaration(elem) ==
    LET S == JoinStr(elem.content)
        decl_end == IndexOf(S, "{")
    IN  IF decl_end = 0 THEN "" ELSE Strip(SubSeq(S, 1, decl_end - 1)) \o ";"

\* what one element contributes to header_elements
HeaderElementsOf(file_key, elem) ==
    IF elem.type \in {"struct", "typedef", "macro", "enum"}
    THEN IF elem.type = "enum"
            /\ \/ file_key = "nn_types"
                  /\ elem.name \in {"SOD_CNN_LAYER_TYPE", "learning_rate_policy", "COST_TYPE"}
               \/ file_key = "activation" /\ elem.name = "ACTIVATION"
         THEN <<>> ELSE <<elem>>
    ELSE IF elem.type = "function"
    THEN LET decl == FunctionDeclaration(elem)
         IN  IF decl # "" /\ ~StartsWith(decl, "static")
             THEN <<Element(elem.name, "declaration", SplitStr(decl),
                            elem.start, elem.start + Len(decl))>>
             ELSE <<>>
    ELSE IF HasDeclarations(elem)
    THEN <<[elem EXCEPT !.content =
                JoinLines(DeclarationLines(SplitLines(elem.content), FALSE,
                                           Declarations(elem.content)))]>>
    ELSE <<>>

RECURSIVE HeaderElements(_, _)
HeaderElements(file_key, elems) ==
    IF elems = <<>> THEN <<>>
    ELSE HeaderElementsOf(file_key, Head(elems)) \o HeaderElements(file_key, Tail(elems))

\* the loop that closes the conditionals of a list of elements
ClosedElements(elems) ==
    [i \in 1..Len(elems) |->
        IF elems[i].type = "conditional"
        THEN [elems[i] EXCEPT !.content = CloseConditional(@)] ELSE elems[i]]

RECURSIVE ContentsOf(_)
ContentsOf(elems) ==
    IF elems = <<>> THEN EmptyText
    ELSE TextCat(TextCat(Head(elems).content, <<"", "", "">>), ContentsOf(Tail(elems)))

HeaderTop(file_key) ==
    << "",
       "/* ",
       " * sod_" \o file_key \o ".h - Part of the SOD library",
       " * Generated from the original monolithic code",
       " */",
       "",
       "#ifndef SOD_" \o Upper(file_key) \o "_H__",
       "#define SOD_" \o Upper(file_key) \o "_H__",
       "",
       "#include \"sod/sod_common.h\"",
       "",
       "" >>

\* header_content of a module whose conditionals hold no declaration
HeaderContent(file_key, elems, out) ==
    LET definitions == IF file_key \in {"nn_types", "activation"}
                       THEN _extract_module_definitions(out, file_key) ELSE EmptyText
    IN  TextCatAll(<< HeaderTop(file_key),
                      IF definitions # EmptyText
                      THEN TextCat(definitions, <<"", "", "">>) ELSE EmptyText,
                      ContentsOf(SortByStart(ClosedElements(HeaderElements(file_key, elems)))),
                      <<"", "#endif /* SOD_" \o Upper(file_key) \o "_H__ */", "">> >>)

\* type_mappings and function_prefixes of _get_necessary_includes
type_mappings ==
    << <<"sod_cnn", "cnn">>, <<"sod_img", "img_utils">>, <<"sod_box", "box_utils">>,
       <<"box", "box_utils">>, <<"network", "nn_types">>, <<"layer", "nn_types">>,
       <<"tree", "nn_types">>, <<"ACTIVATION", "activation">>,
       <<"SOD_CNN_LAYER_TYPE", "nn_types">>, <<"learning_rate_policy", "nn_types">>,
       <<"COST_TYPE", "nn_types">>, <<"SyBlob", "data_structures">>,
       <<"SySet", "data_structures">>, <<"SyString", "data_structures">>,
       <<"sod_vfs", "vfs">>, <<"softmax_layer", "softmax_impl">>,
       <<"local_layer", "local_layer">>, <<"connected_layer", "connected_impl">>,
       <<"convolutional_layer", "convolutional">>, <<"cost_layer", "cost_layer">>,
       <<"route_layer", "route_layer">> >>

function_prefixes ==
    << <<"forward_softmax", "softmax_impl">>, <<"backward_softmax", "softmax_impl">>,
       <<"forward_batchnorm", "batchnorm_impl">>, <<"backward_batchnorm", "batchnorm_impl">>,
       <<"forward_connected", "connected_impl">>, <<"backward_connected", "connected_impl">>,
       <<"forward_convolutional", "convolutional">>,
       <<"backward_convolutional", "convolutional">>,
       <<"forward_cost", "cost_layer">>, <<"backward_cost", "cost_layer">>,
       <<"forward_local", "local_layer">>, <<"backward_local", "local_layer">>,
       <<"forward_route", "route_layer">>, <<"backward_route", "route_layer">>,
       <<"activate", "activation">>, <<"gradient", "activation">>,
       <<"SyBlob", "data_structures">>, <<"SySet", "data_structures">>,
       <<"SyString", "data_structures">> >>

\* the set of modules to include; the words of elem.deps are words of elem.content,
\* so the loop over elem.deps adds nothing to the textual search
_get_necessary_includes(elems) ==
    LET Mentioned(table) ==
            {table[k][2] : k \in {j \in 1..Len(table) :
                                    /\ table[j][2] # "common"
                                    /\ \E e \in 1..Len(elems) :
                                         Contains(JoinStr(elems[e].content), table[j][1])}}
    IN  Mentioned(type_mappings) \cup Mentioned(function_prefixes)

\* the set 'includes' when the include lines are written
ModuleIncludes(file_key, elems) ==
    _get_necessary_includes(elems)
    \cup (IF file_key # "common" THEN {"common"} ELSE {})
    \cup (IF file_key \in {"cnn", "detection", "box_utils", "activation", "dropout"}
          THEN {"nn_types"} ELSE {})

\* the orders in which a set can be iterated
Orders(S) == {q \in [1..Cardinality(S) -> S] : \A i, j \in DOMAIN q : q[i] = q[j] => i = j}

\* the include lines of every module of the set, the module itself too
IncludeLinesAll(file_key, order) ==
    [i \in 1..Len(order) |-> "#include \"sod/sod_" \o order[i] \o ".h\""]

\* the include lines of 'for include in includes', in the order of the iteration
IncludeLines(file_key, order) ==
    LET kept == SelectSeq(order, LAMBDA include : include # file_key)
    IN  [i \in 1..Len(kept) |-> "#include \"sod/sod_" \o kept[i] \o ".h\""]

\* lines without those whose stripped text is in the stray forms
WithoutStray(lines, bare) ==
    SelectSeq(lines, LAMBDA line : ~(Strip(line) \in bare \/ StartsWith(Strip(line), "else if")))

\* the loop over impl_elements: close the conditional, then drop bare 'endif' and 'else if'
FixedImplElement(elem) ==
    IF elem.type # "conditional" THEN elem
    ELSE LET content_ == CloseConditional(elem.content)
             lines == SplitLines(content_)
             fixed_lines == WithoutStray(lines, {"endif"})
         IN  [elem EXCEPT !.content =
                 IF Len(fixed_lines) < Len(lines) THEN JoinLines(fixed_lines) ELSE content_]

\* the content of an element as it is, with no final check for stray lines
EmittedUnchanged(elem) == elem.content

\* the text that the final loop appends for one implementation element
EmittedContent(elem) ==
    IF elem.type \in {"conditional", "function"}
    THEN LET lines == SplitLines(elem.content)
             fixed_lines == WithoutStray(lines, {"endif", "else"})
         IN  IF Len(fixed_lines) < Len(lines) THEN JoinLines(fixed_lines) ELSE elem.content
    ELSE elem.content

\* impl_elements without the conditionals
ImplElementsNoConditional(file_key, elems) ==
    SelectSeq(elems, LAMBDA elem : elem.type \in {"function", "global"})

ImplElements(file_key, elems) ==
    LET header_elements == ClosedElements(HeaderElements(file_key, elems))
    IN  SelectSeq(elems, LAMBDA elem :
            \/ elem.type \in {"function", "global"}
            \/ /\ elem.type = "conditional"
               /\ ~\E k \in 1..Len(header_elements) : header_elements[k] = elem)

RECURSIVE EmittedContents(_)
EmittedContents(elems) ==
    IF elems = <<>> THEN EmptyText
    ELSE TextCat(TextCat(EmittedContent(Head(elems)), <<"", "", "">>),
                 EmittedContents(Tail(elems)))

ImplTop(file_key) ==
    << "",
       "/* ",
       " * sod_" \o file_key \o ".c - Part of the SOD library",
       " * Generated from the original monolithic code",
       " */",
       "",
       "" >>

StandardIncludes == [i \in 1..Len(STANDARD_HEADERS) |-> "#include " \o STANDARD_HEADERS[i]]

ImplContent(file_key, elems, order) ==
    LET impl_elements == ImplElements(file_key, elems)
        fixed == [i \in 1..Len(impl_elements) |-> FixedImplElement(impl_elements[i])]
    IN  TextCatAll(<< ImplTop(file_key),
                      StandardIncludes \o <<"">>,
                      <<"", "#include \"sod_" \o file_key \o ".h\"", "">>,
                      IncludeLines(file_key, order) \o <<"">>,
                      Ln(""),
                      IF file_key = "common"
                      THEN <<"#ifndef OS_OTHER", "#define OS_OTHER", "#endif", "", "">>
                      ELSE EmptyText,
                      EmittedContents(SortByStart(fixed)) >>)

\* the second definition of _create_common_header, which is the one in force
RECURSIVE ConstantLines(_, _)
ConstantLines(constants, macros_) ==
    IF constants = <<>> THEN EmptyText
    ELSE LET found == SelectSeq(macros_, LAMBDA macro : macro.name = Head(constants))
         IN  TextCat(IF found # <<>> THEN TextCat(Head(found).content, Ln("")) ELSE EmptyText,
                     ConstantLines(Tail(constants), macros_))

CommonHeaderContent(macros_, enums_) ==
    TextCatAll(<< << "",
                     "/* ",
                     " * sod_common.h - Common definitions for the SOD library",
                     " * Generated from the original monolithic code",
                     " */",
                     "",
                     "#ifndef SOD_COMMON_H__",
                     "#define SOD_COMMON_H__",
                     "",
                     "/* Standard includes */",
                     "" >>,
                  StandardIncludes \o <<"">>,
                  Ln(""), SOD_API_EXPORT_MACRO, Ln(""),
                  Ln(""), REQUIRED_TYPEDEFS, Ln(""),
                  <<"", "/* Required constants */", "">>,
                  ConstantLines(REQUIRED_CONSTANTS, macros_),
                  <<"", "/* Forward declarations for common types */", "">>,
                  [i \in 1..Len(COMMON_TYPES) |->
                      "typedef struct " \o COMMON_TYPES[i] \o " " \o COMMON_TYPES[i] \o ";"]
                    \o <<"">>,
                  <<"", "/* Common enumerations */", "">>,
                  ContentsOf(SelectSeq(enums_, LAMBDA enum : InList(enum.name, COMMON_ENUMS))),
                  <<"", "#endif /* SOD_COMMON_H__ */", "">> >>)

\* sorted(self.output_files.keys())
RECURSIVE SortedKeys(_)
SortedKeys(S) ==
    IF S = {} THEN <<>>
    ELSE LET Less(a, b) ==
                 \E k \in 1..Min2(Len(a), Len(b)) + 1 :
                    /\ SubSeq(a, 1, k - 1) = SubSeq(b, 1, k - 1)
                    /\ \/ k = Len(a) + 1 /\ k <= Len(b)
                       \/ /\ k <= Len(a) /\ k <= Len(b)
                          /\ IndexOf("_" \o LowerStr, Ch(a, k)) < IndexOf("_" \o LowerStr, Ch(b, k))
             least == CHOOSE a \in S : \A b \in S \ {a} : Less(a, b)
         IN  <<least>> \o SortedKeys(S \ {least})

\* the umbrella header with the modules in the order of output_files
MainHeaderUnsorted(out) ==
    LET others == SelectSeq([i \in 1..Len(out) |-> out[i].key],
                            LAMBDA component : component # "common")
    IN  TextCatAll(<< << "", "/* ", " * sod.h - Main header file for the SOD library",
                         " * Generated from the original monolithic code", " */", "",
                         "#ifndef SOD_H__", "#define SOD_H__", "",
                         "/* Include all component headers */",
                         "#include \"sod/sod_common.h\"", "" >>,
                      [i \in 1..Len(others) |-> "#include \"sod/sod_" \o others[i] \o ".h\""]
                        \o <<"">>,
                      <<"", "#endif /* SOD_H__ */", "">> >>)

MainHeaderContent(out) ==
    LET others == SelectSeq(SortedKeys(Keys(out)), LAMBDA component : component # "common")
    IN  TextCatAll(<< << "",
                         "/* ",
                         " * sod.h - Main header file for the SOD library",
                         " * Generated from the original monolithic code",
                         " */",
                         "",
                         "#ifndef SOD_H__",
                         "#define SOD_H__",
                         "",
                         "/* Include all component headers */",
                         "#include \"sod/sod_common.h\"",
                         "" >>,
                      [i \in 1..Len(others) |-> "#include \"sod/sod_" \o others[i] \o ".h\""]
                        \o <<"">>,
                      <<"", "#endif /* SOD_H__ */", "">> >>)

\* the paths of the generated files, relative to the output directory
CPath(file_key) == "src/sod/sod_" \o file_key \o ".c"

HPath(file_key) == "include/sod/sod_" \o file_key \o ".h"

MainHeaderPath == "include/sod.h"

\* open(path, 'w') and write
WriteFile(fs, path, text) ==
    [p \in DOMAIN fs \cup {path} |-> IF p = path THEN text ELSE fs[p]]

CountWrite(ws, path) ==
    [p \in DOMAIN ws \cup {path} |-> IF p \in DOMAIN ws THEN ws[p] + (IF p = path THEN 1 ELSE 0) ELSE 1]

(***************************************************************************)
(* _check_for_common_issues.  The steps that search with regular           *)
(* expressions whose white space may span lines work on the text as one    *)
(* string; the others work line by line, as the code does.                 *)
(***************************************************************************)
\* line.strip().startswith(p)
StrippedStartsWith(line, p) == At(line, SkipSpace(line, 1), p)

IsCommentLine(line) == StrippedStartsWith(line, "//") \/ StrippedStartsWith(line, "/*")

\* a line whose number of double quotes is odd and that is not a comment
IsUnterminated(line) == CountChar(line, "\"") % 2 # 0 /\ ~IsCommentLine(line)

CloseStrings(lines) ==
    [i \in 1..Len(lines) |-> IF IsUnterminated(lines[i]) THEN lines[i] \o "\"" ELSE lines[i]]
    \o <<>>

\* the state of _check_for_common_issues between two of its checks
Checked(fixed_content, issues_found) ==
    [fixed_content |-> fixed_content, issues_found |-> issues_found]

\* the check for unterminated string literals
CheckStrings(c) ==
    IF \E i \in 1..Len(c.fixed_content) : IsUnterminated(c.fixed_content[i])
    THEN Checked(CloseStrings(c.fixed_content), TRUE)
    ELSE c

\* first position >= from of S that holds one of the characters, 0 when none
FirstOf(S, chars, from) == MinOf({i \in from..Len(S) : Ch(S, i) \in chars})

\* the position after the closing quote at k, the end of the line without one
AfterQuote(line, k) == IF k = 0 THEN Len(line) + 1 ELSE k + 1

\* the position after the string literal that opens at j - 1
SkipString(line, j) ==
    AfterQuote(line, MinOf({k \in j..Len(line) :
                               Ch(line, k) = "\"" /\ Ch(line, k - 1) # "\\"}))

\* the characters at which an iteration of the while loop does more than j += 1
ScanChars == {"\"", "/", "*", "{", "}"}

Scan(in_comment, brace_balance) == [in_comment |-> in_comment, brace_balance |-> brace_balance]

RECURSIVE ScanBraces(_, _, _)

\* the iteration of the while loop at position i, which holds one of ScanChars
\* (i = 0: the line has no more of them)
ScanAt(line, i, scan) ==
    IF i = 0 \/ At(line, i, "//") THEN scan
    ELSE IF Ch(line, i) = "\"" /\ (i = 1 \/ Ch(line, i - 1) # "\\")
    THEN ScanBraces(line, SkipString(line, i + 1), scan)
    ELSE IF At(line, i, "/*") THEN ScanBraces(line, i + 2, Scan(TRUE, scan.brace_balance))
    ELSE IF scan.in_comment
    THEN ScanBraces(line, IF At(line, i, "*/") THEN i + 2 ELSE i + 1,
                    Scan(~At(line, i, "*/"), scan.brace_balance))
    ELSE ScanBraces(line, i + 1, Scan(FALSE, scan.brace_balance + BraceValue(Ch(line, i))))

\* the while loop over the characters of one line, from position j: the
\* iterations at the other characters only advance j, so the scan goes from
\* one of ScanChars to the next
ScanBraces(line, j, scan) == ScanAt(line, FirstOf(line, ScanChars, j), scan)

\* a line without brace and without '*' changes neither in_comment nor
\* brace_balance
Scanned(line) == FirstOf(line, {"{", "}", "*"}, 1) # 0

\* the loop over the lines, here over the lines from..to of those that can
\* change the state: the first half of them, then the second half from the
\* state that the first half leaves
RECURSIVE BraceBalance(_, _, _, _)
BraceBalance(scanned, from, to, scan) ==
    IF from > to THEN scan
    ELSE IF from = to THEN ScanBraces(scanned[from], 1, scan)
    ELSE LET first == BraceBalance(scanned, from, (from + to) \div 2, scan)
         IN  [after \in {first} |->
                 BraceBalance(scanned, (from + to) \div 2 + 1, to, after)][first]

\* brace_balance after the loop
BalanceOf(scanned) == BraceBalance(scanned, 1, Len(scanned), Scan(FALSE, 0)).brace_balance

\* may the last '}' of the line be removed
HasRemovableBrace(line) ==
    Contains(line, "}") /\ ~StrippedStartsWith(line, "//") /\ ~Contains(line, "/*")

\* line[:last_brace] + '/* Extra closing brace removed */' + line[last_brace+1:]
RemoveBraceAt(line, last_brace) ==
    SubSeq(line, 1, last_brace - 1) \o "/* Extra closing brace removed */"
    \o From(line, last_brace + 1)

\* the lines with the last '}' of the lines of 'removed' made a comment
RemoveBraces(lines, removed) ==
    [i \in 1..Len(lines) |->
        IF i \in removed THEN RemoveBraceAt(lines[i], LastIndexOf(lines[i], "}"))
        ELSE lines[i]] \o <<>>

\* the last extra_braces of the candidate lines
LastOf(candidates, extra_braces) ==
    {i \in candidates : Cardinality({j \in candidates : j > i}) < extra_braces}

\* from the last line backwards, the last '}' of a line becomes a comment, in
\* extra_braces lines
RemoveExtraBraces(lines, extra_braces) ==
    RemoveBraces(lines, LastOf({i \in 1..Len(lines) : HasRemovableBrace(lines[i])},
                               extra_braces))

RECURSIVE Braces(_)
Braces(n) == IF n <= 0 THEN "" ELSE "}" \o Braces(n - 1)

BalanceBraces(t, brace_balance) ==
    IF brace_balance > 0
    THEN TextCat(t, <<"", Braces(brace_balance) \o " /* Auto-added to balance braces */", "">>)
    ELSE RemoveExtraBraces(t, -brace_balance)

FixBraces(c, brace_balance) ==
    IF brace_balance = 0 THEN c
    ELSE Checked(BalanceBraces(c.fixed_content, brace_balance), TRUE)

\* the check for unbalanced braces
CheckBraces(c) == FixBraces(c, BalanceOf(SelectSeq(c.fixed_content, Scanned)))

\* the '}' that closes the block opened at position open, 0 without one
CloseOf(S, open) ==
    IF open = 0 \/ Ch(S, open) # "{" THEN 0 ELSE FirstOf(S, {"}"}, open + 1)

\* the end of '[^;{]*{[^}]*}' from position k: the position of '}', 0 without a match
BracedEnd(S, k) == CloseOf(S, FirstOf(S, {";", "{"}, k))

\* the end of 'struct' or 'enum' at position k, 0 when neither is there
KeywordEnd(S, k) ==
    IF At(S, k, "struct") THEN k + 5 ELSE IF At(S, k, "enum") THEN k + 3 ELSE 0

\* the end of 'typedef\s+struct|typedef\s+enum' at position i, 0 without a match
TypedefKeywordEnd(S, i) ==
    IF ~At(S, i, "typedef") \/ SkipSpace(S, i + 7) = i + 7 THEN 0
    ELSE KeywordEnd(S, SkipSpace(S, i + 7))

\* '\s*(?!;)' between position e and the first position p after the white space
TrailBefore(S, e, p) ==
    IF p > Len(S) \/ Ch(S, p) # ";" THEN p - 1
    ELSE IF p > e + 1 THEN p - 2 ELSE 0

\* '\s*(?!;)' after position e: the end of the match.  The white space is given
\* back by one character when a ';' follows it; 0 when ';' follows e at once
TrailEnd(S, e) == TrailBefore(S, e, SkipSpace(S, e + 1))

\* the match of the keyword kw at i, of the name that ends at e, and of the
\* white space up to trail; a name that is followed at once by ';' is matched
\* without its last character
DefMatch(S, i, kw, name, e, trail) ==
    IF trail # 0
    THEN [name |-> <<SubSeq(S, i, kw), name>>, from |-> i, to |-> trail]
    ELSE IF Len(name) >= 2
    THEN [name |-> <<SubSeq(S, i, kw), Front(name)>>, from |-> i, to |-> e - 1]
    ELSE NoMatch

DefNamed(S, i, kw, n, name) ==
    IF name = "" THEN NoMatch
    ELSE DefMatch(S, i, kw, name, n + Len(name) - 1, TrailEnd(S, n + Len(name) - 1))

DefClosed(S, i, kw, close) ==
    IF close = 0 THEN NoMatch
    ELSE DefNamed(S, i, kw, SkipSpace(S, close + 1), IdentAt(S, SkipSpace(S, close + 1)))

DefAfter(S, i, kw) == IF kw = 0 THEN NoMatch ELSE DefClosed(S, i, kw, BracedEnd(S, kw + 1))

\* the match at i of
\* (typedef\s+struct|typedef\s+enum)[^;{]*{[^}]*}\s*([a-zA-Z_][a-zA-Z0-9_]*)\s*(?!;)
UnterminatedDefAt(S, i) == DefAfter(S, i, TypedefKeywordEnd(S, i))

RECURSIVE UnterminatedDefs(_, _)

DefsAfter(S, i, m) ==
    IF m.from = 0 THEN UnterminatedDefs(S, i + 1)
    ELSE <<m.name>> \o UnterminatedDefs(S, Max2(m.to, i) + 1)

DefsAt(S, i) == IF i = 0 THEN <<>> ELSE DefsAfter(S, i, UnterminatedDefAt(S, i))

\* re.findall of that expression: the pairs (keyword, name), from left to right
UnterminatedDefs(S, from) == DefsAt(S, IndexFrom(S, "typedef", from))

RECURSIVE AddSemicolon(_, _, _)

\* the replacement of the match of def at i whose name ends at e and whose
\* white space ends at to (0: no match at i)
SemicolonAfter(S, from, def, i, e, to) ==
    IF to = 0 THEN SubSeq(S, from, i) \o AddSemicolon(S, i + 1, def)
    ELSE SubSeq(S, from, e) \o ";" \o AddSemicolon(S, to + 1, def)

SemicolonNamed(S, from, def, i, close, n) ==
    SemicolonAfter(S, from, def, i, n + Len(def[2]) - 1,
                   IF close # 0 /\ At(S, n, def[2]) THEN TrailEnd(S, n + Len(def[2]) - 1)
                   ELSE 0)

SemicolonClosed(S, from, def, i, close) ==
    SemicolonNamed(S, from, def, i, close, SkipSpace(S, close + 1))

SemicolonAt(S, from, def, i) ==
    IF i = 0 THEN From(S, from)
    ELSE SemicolonClosed(S, from, def, i, BracedEnd(S, i + Len(def[1])))

\* re.sub of '(keyword[^;{]*{[^}]*}\s*name)\s*(?!;)' by '\1;'
AddSemicolon(S, from, def) == SemicolonAt(S, from, def, IndexFrom(S, def[1], from))

RECURSIVE AddSemicolons(_, _)
AddSemicolons(S, defs) ==
    IF defs = <<>> THEN S ELSE AddSemicolons(AddSemicolon(S, 1, Head(defs)), Tail(defs))

FixDefs(S, struct_enum_defs) ==
    IF struct_enum_defs = <<>> THEN <<>>
    ELSE SplitStr(AddSemicolons(S, SubSeq(struct_enum_defs, 1, Min2(50, Len(struct_enum_defs)))))

\* the text with the semicolons added, <<>> when no definition lacks one
FixedDefs(S) == FixDefs(S, UnterminatedDefs(S, 1))

AfterDefs(c, fixed) == IF fixed = <<>> THEN c ELSE Checked(fixed, TRUE)

HasLine(t, p) == \E i \in 1..Len(t) : Contains(t[i], p)

\* the check for struct and enum definitions without a semicolon; the
\* expression needs a '}' and a 'typedef' to match
CheckDefs(c) ==
    IF HasLine(c.fixed_content, "}") /\ HasLine(c.fixed_content, "typedef")
    THEN AfterDefs(c, FixedDefs(JoinStr(c.fixed_content)))
    ELSE c

MalformedTo(i, name, next_is_semicolon, next) ==
    IF next_is_semicolon THEN [name |-> name, from |-> i, to |-> next] ELSE NoMatch

\* the match of '}' at i, of the name, and of the ';' expected at position semi
MalformedMatch(S, i, name, semi, exact, next) ==
    IF name = "" \/ ~At(S, semi, ";") THEN NoMatch
    ELSE IF exact
    THEN IF At(S, semi + 1, "E;") THEN [name |-> name, from |-> i, to |-> semi + 2]
         ELSE NoMatch
    ELSE MalformedTo(i, name, next # 0 /\ Ch(S, next) = ";", next)

MalformedNamed(S, i, name, semi, exact) ==
    MalformedMatch(S, i, name, semi, exact, FirstOf(S, {";", "{", "}", "\n"}, semi + 1))

MalformedFrom(S, i, n, exact) ==
    MalformedNamed(S, i, IdentAt(S, n), SkipSpace(S, n + Len(IdentAt(S, n))), exact)

\* the match at the '}' of position i of '}\s*([a-zA-Z_][a-zA-Z0-9_]*)\s*;' followed
\* by 'E;' (exact) or by '[^;{}\n]*;'
MalformedAt(S, i, exact) == MalformedFrom(S, i, SkipSpace(S, i + 1), exact)

RECURSIVE FixMalformed(_, _, _)

FixMalformedMatch(S, from, exact, i, m) ==
    IF m.from = 0 THEN SubSeq(S, from, i) \o FixMalformed(S, i + 1, exact)
    ELSE SubSeq(S, from, i - 1) \o "} " \o m.name \o ";" \o FixMalformed(S, m.to + 1, exact)

FixMalformedAt(S, from, exact, i) ==
    IF i = 0 THEN From(S, from) ELSE FixMalformedMatch(S, from, exact, i, MalformedAt(S, i, exact))

\* re.sub of that expression by '} \1;'
FixMalformed(S, from, exact) == FixMalformedAt(S, from, exact, IndexFrom(S, "}", from))

\* is there a match of that expression
HasMalformed(S, exact) ==
    \E i \in 1..Len(S) : Ch(S, i) = "}" /\ MalformedAt(S, i, exact).from # 0

\* the check for malformed enum definitions: the matches are looked for in the
\* text as it was read, the replacements are made in the text as fixed so far
CheckMalformed(content_, c) ==
    Checked(IF HasLine(c.fixed_content, "}")
            THEN SplitStr(FixMalformed(FixMalformed(FixMalformed(JoinStr(c.fixed_content),
                                                                 1, TRUE), 1, FALSE), 1, FALSE))
            ELSE c.fixed_content,
            \/ c.issues_found
            \/ /\ HasLine(content_, "}")
               /\ \/ HasMalformed(JoinStr(content_), TRUE)
                  \/ HasMalformed(JoinStr(content_), FALSE))

RECURSIVE FixWindowsInclude(_, _)

\* the replacement of '#include' at i, followed by white space up to n
FixWindowsAt(S, from, i, n) ==
    IF i = 0 THEN From(S, from)
    ELSE IF n > i + 8 /\ At(S, n, "<Windows") /\ n + 8 <= Len(S)
            /\ Ch(S, n + 8) # "\n" /\ At(S, n + 9, "h>")
    THEN SubSeq(S, from, i - 1) \o "#ifdef _WIN32\n#include <windows.h>\n#endif"
         \o FixWindowsInclude(S, n + 11)
    ELSE SubSeq(S, from, i) \o FixWindowsInclude(S, i + 1)

FixWindowsFrom(S, from, i) == FixWindowsAt(S, from, i, SkipSpace(S, i + 8))

\* re.sub(r'#include\s+<Windows.h>', '#ifdef _WIN32\n#include <windows.h>\n#endif', S)
FixWindowsInclude(S, from) == FixWindowsFrom(S, from, IndexFrom(S, "#include", from))

\* the check for the include of Windows.h
CheckWindows(c) ==
    IF HasLine(c.fixed_content, "Windows.h")
    THEN Checked(SplitStr(FixWindowsInclude(JoinStr(c.fixed_content), 1)), TRUE)
    ELSE c

(***************************************************************************)
(* _check_for_macro_issues                                                 *)
(***************************************************************************)
\* one of the words at position j, with \b after the word when bounded
WordAt(line, words, bounded, j) ==
    \E w \in words : At(line, j, w) /\ (bounded => BoundaryAfter(line, j + Len(w) - 1))

\* re.match(r'^\s*#\s*' + word, line), with \b after the word when bounded
DirectiveAt(line, words, bounded) ==
    /\ StrippedStartsWith(line, "#")
    /\ WordAt(line, words, bounded, SkipSpace(line, SkipSpace(line, 1) + 1))

\* the name after 'define' at position j, "" without white space or name
NameAfterDefine(line, j) ==
    IF SkipSpace(line, j + 6) > j + 6 THEN IdentAt(line, SkipSpace(line, j + 6)) ELSE ""

\* group(1) of re.match(r'^\s*#\s*define\s+([a-zA-Z_][a-zA-Z0-9_]*)', line), "" without
DefinedName(line) ==
    IF DirectiveAt(line, {"define"}, FALSE)
    THEN NameAfterDefine(line, SkipSpace(line, SkipSpace(line, 1) + 1))
    ELSE ""

\* re.search(r'#ifndef\s+' + re.escape(macro_name), guard_line)
GuardsMacro(guard_line, macro_name) ==
    \E i \in 1..Len(guard_line) :
        /\ At(guard_line, i, "#ifndef")
        /\ SkipSpace(guard_line, i + 7) > i + 7
        /\ At(guard_line, SkipSpace(guard_line, i + 7), macro_name)

\* the state of _check_for_macro_issues between two of its checks
Fixed(fixed_content, issues_fixed) ==
    [fixed_content |-> fixed_content, issues_fixed |-> issues_fixed]

\* a '#define' line of more than 80 characters that does not end with '\'
IsLongMacro(line) == StartsWith(line, "#define") /\ Len(line) > 80 /\ ~EndsWith(line, "\\")

\* the lines of 'long' cut at column 79, the lines after those of 'continued' indented
CutLines(lines, long, continued) ==
    [lines |-> IF long = {} THEN lines
               ELSE [i \in 1..Len(lines) |->
                       IF i \in long THEN SubSeq(lines[i], 1, 79) \o " \\"
                       ELSE IF i - 1 \in continued THEN "    " \o lines[i]
                       ELSE lines[i]] \o <<>>,
     issues_fixed |-> continued # {}]

CutLong(lines, long) ==
    CutLines(lines, long,
             {i \in long : i + 1 <= Len(lines) /\ ~StartsWith(lines[i + 1], "#")})

\* the long '#define' lines are cut at column 79 and the next line, when it is
\* no directive, is indented; only the latter sets issues_fixed.  An indented
\* line is no directive, so the lines are treated independently
LongMacros(lines) == CutLong(lines, {i \in 1..Len(lines) : IsLongMacro(lines[i])})

AfterLong(content_, long) ==
    IF long.issues_fixed THEN Fixed(JoinLines(long.lines), TRUE) ELSE Fixed(content_, FALSE)

\* the check for '#define' lines that are too long
CheckLong(content_) == AfterLong(content_, LongMacros(SplitLines(content_)))

\* the indices of the lines that start, after white space, with '#': the only
\* lines at which the loops over the lines of _check_for_macro_issues act
RECURSIVE Indices(_, _, _)
Indices(lines, from, to) ==
    IF from > to THEN <<>>
    ELSE IF from = to
    THEN IF StrippedStartsWith(lines[from], "#") THEN <<from>> ELSE <<>>
    ELSE Indices(lines, from, (from + to) \div 2) \o Indices(lines, (from + to) \div 2 + 1, to)

DirectiveIndices(lines) == Indices(lines, 1, Len(lines))

\* directive_stack after line i
StackAfter(line, i, directive_stack) ==
    IF DirectiveAt(line, {"if"}, FALSE) THEN Append(directive_stack, i)
    ELSE IF DirectiveAt(line, {"endif"}, FALSE) /\ directive_stack # <<>>
    THEN Front(directive_stack)
    ELSE directive_stack

\* is the definition of macro_name inside an include guard for it
IsGuarded(lines, stack, macro_name) ==
    macro_name # "" /\ stack # <<>> /\ GuardsMacro(lines[Last(stack)], macro_name)

\* directive_stack, macro_defs, in_guard and the indices of the lines that the
\* loop comments out
Tracked(directive_stack, macro_defs, in_guard, redefined) ==
    [directive_stack |-> directive_stack, macro_defs |-> macro_defs,
     in_guard |-> in_guard, redefined |-> redefined]

RedefinitionsTracked(i, stack, macro_name, is_guarded, tracked, t) ==
    Tracked(stack,
            IF tracked THEN t.macro_defs \cup {macro_name} ELSE t.macro_defs,
            IF is_guarded THEN t.in_guard \cup {macro_name} ELSE t.in_guard,
            IF tracked /\ macro_name \in t.macro_defs
            THEN t.redefined \cup {i} ELSE t.redefined)

RedefinitionsGuarded(i, stack, macro_name, is_guarded, t) ==
    RedefinitionsTracked(i, stack, macro_name, is_guarded,
                         macro_name # "" /\ ~is_guarded /\ macro_name \notin t.in_guard, t)

\* the iteration at line i of the loop that finds the redefinitions of a macro
RedefinitionsAt(lines, i, stack, macro_name, t) ==
    RedefinitionsGuarded(i, stack, macro_name, IsGuarded(lines, stack, macro_name), t)

\* the loop over the lines at[from], ..., at[to]: the first half of them, then
\* the second half from the state that the first half leaves
RECURSIVE Redefinitions(_, _, _, _, _)
Redefinitions(lines, at, from, to, t) ==
    IF from > to THEN t
    ELSE IF from = to
    THEN RedefinitionsAt(lines, at[from],
                         StackAfter(lines[at[from]], at[from], t.directive_stack),
                         DefinedName(lines[at[from]]), t)
    ELSE LET first == Redefinitions(lines, at, from, (from + to) \div 2, t)
         IN  [after \in {first} |->
                 Redefinitions(lines, at, (from + to) \div 2 + 1, to, after)][first]

\* the indices of the lines to comment out
RedefinedAt(lines, at) ==
    Redefinitions(lines, at, 1, Len(at), Tracked(<<>>, {}, {}, {})).redefined

CommentRedefinitions(lines, redefined) ==
    [i \in 1..Len(lines) |->
        IF i \in redefined THEN "/* Duplicate definition removed: " \o lines[i] \o " */"
        ELSE lines[i]] \o <<>>

CommentedOut(m, lines, redefined) ==
    IF m.issues_fixed \/ redefined # {}
    THEN Fixed(JoinLines(CommentRedefinitions(lines, redefined)), TRUE)
    ELSE m

RedefinedIn(m, lines) ==
    CommentedOut(m, lines, RedefinedAt(lines, DirectiveIndices(lines)))

\* the check for macros that are defined twice
CheckRedefinitions(m) == RedefinedIn(m, SplitLines(m.fixed_content))

\* the match at the '#' of position i of the word at j and of the name at k
DirectiveMatchNamed(S, word, i, j, k) ==
    IF At(S, i, "#") /\ At(S, j, word) /\ k > j + Len(word) /\ IdentAt(S, k) # ""
    THEN [name |-> IdentAt(S, k), from |-> i, to |-> k + Len(IdentAt(S, k)) - 1]
    ELSE NoMatch

DirectiveMatchFrom(S, word, i, j) ==
    DirectiveMatchNamed(S, word, i, j, SkipSpace(S, j + Len(word)))

\* the match at position i of r'#\s*' + word + r'\s+([a-zA-Z_][a-zA-Z0-9_]*)'
DirectiveMatchAt(S, word, i) == DirectiveMatchFrom(S, word, i, SkipSpace(S, i + 1))

RECURSIVE MatchesFrom(_, _, _, _)

NextMatch(S, word, hits, i) ==
    IF i = 0 THEN <<>>
    ELSE <<DirectiveMatchAt(S, word, i)>> \o MatchesFrom(S, word, hits, i + 1)

\* the matches at the positions of hits that are >= from, from left to right
MatchesFrom(S, word, hits, from) == NextMatch(S, word, hits, MinOf({i \in hits : i >= from}))

\* the matches of r'#\s*' + word + r'\s+([a-zA-Z_][a-zA-Z0-9_]*)' in S, from left to right
DirectiveMatches(S, word) ==
    MatchesFrom(S, word,
                {i \in 1..Len(S) : Ch(S, i) = "#" /\ DirectiveMatchAt(S, word, i).from # 0}, 1)

\* the '#undef's of undefined names are commented out, each at the positions
\* that its match had before any replacement
RECURSIVE CommentUndefs(_, _, _)
CommentUndefs(S, undefs, defined_macros) ==
    IF undefs = <<>> THEN S
    ELSE CommentUndefs(IF Head(undefs).name \in defined_macros THEN S
                       ELSE SubSeq(S, 1, Head(undefs).from - 1)
                            \o "/* Commented out as no matching #define found: "
                            \o SubSeq(S, Head(undefs).from, Head(undefs).to) \o " */"
                            \o From(S, Head(undefs).to + 1),
                       Tail(undefs), defined_macros)

UndefsOf(m, S, undefs, defined_macros) ==
    IF \E k \in 1..Len(undefs) : undefs[k].name \notin defined_macros
    THEN Fixed(SplitStr(CommentUndefs(S, undefs, defined_macros)), TRUE)
    ELSE m

MatchedNames(matches) == {matches[k].name : k \in 1..Len(matches)}

UndefsIn(m, S) ==
    UndefsOf(m, S, DirectiveMatches(S, "undef"), MatchedNames(DirectiveMatches(S, "define")))

\* the check for '#undef' without a '#define'
CheckUndefs(m) ==
    IF HasLine(m.fixed_content, "undef") THEN UndefsIn(m, JoinStr(m.fixed_content)) ELSE m

\* the loop over the lines that pairs the directives: what is left of the stack
\* of open directives, and the indices of the '#endif's without an open directive
RECURSIVE PairDirectives(_, _, _, _)
PairDirectives(lines, at, directive_stack, unmatched_endifs) ==
    IF at = <<>>
    THEN [directive_stack |-> directive_stack, unmatched_endifs |-> unmatched_endifs]
    ELSE IF DirectiveAt(lines[Head(at)], {"if", "ifdef", "ifndef"}, TRUE)
    THEN PairDirectives(lines, Tail(at),
                        Append(directive_stack, <<Head(at), Strip(lines[Head(at)])>>),
                        unmatched_endifs)
    ELSE IF DirectiveAt(lines[Head(at)], {"endif"}, TRUE)
    THEN IF directive_stack # <<>>
         THEN PairDirectives(lines, Tail(at), Front(directive_stack), unmatched_endifs)
         ELSE PairDirectives(lines, Tail(at), directive_stack, unmatched_endifs \cup {Head(at)})
    ELSE PairDirectives(lines, Tail(at), directive_stack, unmatched_endifs)

\* the extra '#endif's commented out, and one '#endif' appended per open directive
BalancedLines(lines, directive_stack, unmatched_endifs) ==
    [i \in 1..Len(lines) |->
        IF i \in unmatched_endifs
        THEN "/* Extra #endif removed: " \o lines[i] \o " */" ELSE lines[i]]
    \o [k \in 1..Len(directive_stack) |->
          "#endif /* Auto-added to match " \o directive_stack[k][2] \o " at line "
          \o ToString(directive_stack[k][1]) \o " */"]

Paired(m, lines, pairs) ==
    IF pairs.directive_stack # <<>> \/ pairs.unmatched_endifs # {}
    THEN Fixed(JoinLines(BalancedLines(lines, pairs.directive_stack, pairs.unmatched_endifs)),
               TRUE)
    ELSE m

PairsIn(m, lines) == Paired(m, lines, PairDirectives(lines, DirectiveIndices(lines), <<>>, {}))

\* the check for unbalanced preprocessor directives
CheckPairs(m) == PairsIn(m, SplitLines(m.fixed_content))

MacroResult(content_, m) == IF m.issues_fixed THEN m.fixed_content ELSE content_

\* the text that _check_for_macro_issues returns
_check_for_macro_issues(content_) ==
    MacroResult(content_, CheckPairs(CheckUndefs(CheckRedefinitions(CheckLong(content_)))))

\* the call of _check_for_macro_issues: its result becomes the fixed content
CheckMacros(c) == Checked(_check_for_macro_issues(c.fixed_content), c.issues_found)

\* _check_for_common_issues: the text it leaves in the file, and its return value
_check_for_common_issues(content_) ==
    CheckMacros(CheckWindows(CheckMalformed(content_,
        CheckDefs(CheckBraces(CheckStrings(Checked(content_, FALSE)))))))

(***************************************************************************)
(* _verify_output                                                          *)
(***************************************************************************)
AutoBalanced == <<"", "#endif /* Auto-added to balance directives */", "">>

FileResult(text, open_directives, close_directives, checked) ==
    [text |-> IF checked.fixed_content # text THEN checked.fixed_content
              ELSE IF open_directives > close_directives
              THEN TextCat(text, Repeat(AutoBalanced, open_directives - close_directives))
              ELSE text,
     issues_found |-> open_directives # close_directives \/ checked.issues_found,
     writes |-> (IF open_directives > close_directives THEN 1 ELSE 0)
                + (IF checked.fixed_content # text THEN 1 ELSE 0)]

\* the check of one file: the text it leaves in the file, whether it reports an
\* issue, and how often it opens the file for writing.  _check_for_common_issues
\* works from the text read before the '#endif's were appended, and rewrites the
\* file only when its own result differs from that text
VerifiedFile(text) ==
    FileResult(text, OpenDirectives(text), CloseDirectives(text), _check_for_common_issues(text))

\* the paths that the loops of _verify_output visit
VerifiedPaths(out, fs) ==
    {path \in DOMAIN fs : \E k \in 1..Len(out) : path \in {CPath(out[k].key), HPath(out[k].key)}}

PassResult(fs, verified) ==
    [files |-> [path \in DOMAIN fs |->
                  IF path \in DOMAIN verified THEN verified[path].text ELSE fs[path]],
     issues_found |-> \E path \in DOMAIN verified : verified[path].issues_found,
     writes |-> [path \in DOMAIN verified |-> verified[path].writes]]

\* the output directory after a pass, and the value the pass returns
_verify_output(out, fs) ==
    PassResult(fs, [path \in VerifiedPaths(out, fs) |-> VerifiedFile(fs[path])] @@ <<>>)

(***************************************************************************)
(* The state of a run.                                                     *)
(***************************************************************************)
VARIABLES
    pc,            \* the place of the run in main / extract_and_process
    content,       \* the lines of the input file
    functions, structs, enums, globals, typedefs, macros, conditionals,
    symbol_map,    \* ordered dictionary: sequence of [symbol, type, component, used_in]
    warnings,      \* the warnings printed by the extraction
    output_files,  \* ordered dictionary: sequence of [key, elements]
    module_deps,   \* the pairs <<module, module it depends on>>
    module_index,  \* position of create_output_files in output_files
    files,         \* the output directory: path -> text
    writes,        \* path -> number of times the path was opened for writing
    failed,        \* has extract_and_process caught an exception
    args,          \* the flags [skip_verification, strict] that main has read
    passes,        \* number of passes of _verify_output that have run
    issues_found,  \* the value that the last pass of _verify_output returned
    exit_code      \* the exit status of the process, NotExited while it runs

extractVars == <<content, functions, structs, enums, globals, typedefs, macros, conditionals>>

mapVars == <<symbol_map, output_files, module_deps>>

fileVars == <<files, writes>>

runVars == <<module_index, failed>>

verifyVars == <<passes, issues_found>>

NotExited == -1

\* the flags of the command line; main reads them after extract_and_process
Args == [skip_verification : BOOLEAN, strict : BOOLEAN]

NotRead == [skip_verification |-> FALSE, strict |-> FALSE, read |-> FALSE]

vars == <<pc, extractVars, warnings, mapVars, runVars, fileVars, verifyVars, args, exit_code>>

UnterminatedWarning(start_line, directive) ==
    "Warning: Unterminated conditional starting at line " \o ToString(start_line + 1)
    \o ": " \o directive

\* the warning of extract_conditionals: the block that FixedConditional repairs
ConditionalWarnings(lines) ==
    LET found == extract_conditionals(lines).elems
        fixed == {i \in 1..Len(found) : found[i].name = "conditional_fixed"}
    IN  IF fixed = {} THEN <<>>
        ELSE LET dl == DirectiveLines(lines, 1)
                 first == CHOOSE k \in 1..Len(dl) :
                              JoinedLen(lines, dl[k][1]) = found[CHOOSE i \in fixed : TRUE].start
                                /\ StartsWith(dl[k][2], "#if")
             IN  <<UnterminatedWarning(dl[first][1], dl[first][2])>>

Init ==
    /\ pc = "extract_symbols"
    /\ content \in Inputs
    /\ functions = <<>> /\ structs = <<>> /\ enums = <<>> /\ globals = <<>>
    /\ typedefs = <<>> /\ macros = <<>> /\ conditionals = <<>>
    /\ symbol_map = <<>>
    /\ warnings = <<>>
    /\ output_files = <<>>
    /\ module_deps = {}
    /\ module_index = 0
    /\ files = <<>>
    /\ writes = <<>>
    /\ failed = FALSE
    /\ args = NotRead
    /\ passes = 0
    /\ issues_found = FALSE
    /\ exit_code = NotExited

\* extract_symbols: enums, conditionals, functions, structs, globals, typedefs and
\* macros, in this order (comments and includes are extracted and never used)
ExtractSymbols ==
    /\ pc = "extract_symbols"
    /\ LET fs == extract_functions(content)
           m1 == AddAllToSymbolMap(<<>>, extract_enums(content), "enum")
           m2 == AddAllToSymbolMap(m1, fs.elems, "function")
           m3 == AddAllToSymbolMap(m2, extract_structs(content), "struct")
           m4 == AddAllToSymbolMap(m3, extract_globals(content), "global")
           m5 == AddAllToSymbolMap(m4, extract_typedefs(content), "typedef")
           m6 == AddAllToSymbolMap(m5, extract_macros(content), "macro")
       IN  /\ enums' = extract_enums(content)
           /\ conditionals' = extract_conditionals(content).elems
           /\ functions' = fs.elems
           /\ structs' = extract_structs(content)
           /\ globals' = extract_globals(content)
           /\ typedefs' = extract_typedefs(content)
           /\ macros' = extract_macros(content)
           /\ symbol_map' = m6
           /\ warnings' = ConditionalWarnings(content) \o fs.warnings
    /\ pc' = "map_functions"
    /\ UNCHANGED <<content, output_files, module_deps, runVars, fileVars, verifyVars, args, exit_code>>

\* the end of a step of map_symbols_to_components
Mapped(mapped, there) ==
    /\ output_files' = mapped.output_files
    /\ symbol_map' = mapped.symbol_map
    /\ pc' = there
    /\ UNCHANGED <<extractVars, warnings, module_deps, runVars, fileVars, verifyVars, args, exit_code>>

MapFunctions ==
    /\ pc = "map_functions"
    /\ Mapped(_map_functions(functions, output_files, symbol_map), "map_structs")

MapStructs ==
    /\ pc = "map_structs"
    /\ Mapped(_map_structs(structs, output_files, symbol_map), "map_enums")

MapEnums ==
    /\ pc = "map_enums"
    /\ Mapped(_map_enums(enums, output_files, symbol_map), "map_typedefs")

MapTypedefs ==
    /\ pc = "map_typedefs"
    /\ Mapped(_map_typedefs(typedefs, output_files, symbol_map), "map_globals")

MapGlobals ==
    /\ pc = "map_globals"
    /\ Mapped(_map_globals(globals, output_files, symbol_map), "map_macros")

MapMacros ==
    /\ pc = "map_macros"
    /\ Mapped(_map_macros(macros, output_files, symbol_map), "analyze_module_dependencies")

\* used_in of a symbol is never filled, so no dependency is ever recorded
AnalyzeModuleDependencies ==
    /\ pc = "analyze_module_dependencies"
    /\ module_deps' = ModuleDependencies(symbol_map, module_deps)
    /\ pc' = "map_conditionals"
    /\ UNCHANGED <<extractVars, warnings, symbol_map, output_files, runVars, fileVars, verifyVars, args, exit_code>>

\* _map_conditionals and the sort that ends map_symbols_to_components
MapConditionals ==
    /\ pc = "map_conditionals"
    /\ output_files' = SortAll(_map_conditionals(conditionals, output_files, symbol_map))
    /\ pc' = "create_common_header"
    /\ UNCHANGED <<extractVars, warnings, symbol_map, module_deps, runVars, fileVars, verifyVars, args, exit_code>>

\* create_output_files up to its loop: _create_common_header
CreateCommonHeader ==
    /\ pc = "create_common_header"
    /\ files' = WriteFile(files, HPath("common"), CommonHeaderContent(macros, enums))
    /\ writes' = CountWrite(writes, HPath("common"))
    /\ module_index' = 1
    /\ pc' = IF output_files = <<>> THEN "create_main_header" ELSE "create_module"
    /\ UNCHANGED <<extractVars, warnings, mapVars, failed, verifyVars, args, exit_code>>

\* one iteration of the loop of create_output_files.  A conditional with a
\* declaration rebinds header_content to a list: the implementation is written,
\* the header is opened (and so emptied) and f.write raises TypeError, which
\* extract_and_process catches
CreateModule ==
    /\ pc = "create_module"
    /\ LET file_key == output_files[module_index].key
           elements == output_files[module_index].elements
           raises == \E k \in 1..Len(elements) : HasDeclarations(elements[k])
       IN  /\ \E order \in Orders(ModuleIncludes(file_key, elements)) :
                files' = WriteFile(WriteFile(files, CPath(file_key),
                                             ImplContent(file_key, elements, order)),
                                   HPath(file_key),
                                   IF raises THEN EmptyText
                                   ELSE HeaderContent(file_key, elements, output_files))
           /\ writes' = CountWrite(CountWrite(writes, CPath(file_key)), HPath(file_key))
           /\ failed' = raises
           /\ pc' = IF raises THEN "main"
                    ELSE IF module_index = Len(output_files) THEN "create_main_header"
                    ELSE "create_module"
    /\ module_index' = module_index + 1
    /\ UNCHANGED <<extractVars, warnings, mapVars, verifyVars, args, exit_code>>

CreateMainHeader ==
    /\ pc = "create_main_header"
    /\ files' = WriteFile(files, MainHeaderPath, MainHeaderContent(output_files))
    /\ writes' = CountWrite(writes, MainHeaderPath)
    /\ pc' = "verify_output"
    /\ UNCHANGED <<extractVars, warnings, mapVars, runVars, verifyVars, args, exit_code>>

\* one pass of _verify_output over the output directory
PassWritten(pass) ==
    /\ files' = pass.files
    /\ writes' = [path \in DOMAIN writes |->
                    writes[path] + (IF path \in DOMAIN pass.writes
                                    THEN pass.writes[path] ELSE 0)]
    /\ issues_found' = pass.issues_found
    /\ passes' = passes + 1

VerifyPass == PassWritten(_verify_output(output_files, files))

\* the pass at the end of extract_and_process; its return value is not used
VerifyOutput ==
    /\ pc = "verify_output"
    /\ VerifyPass
    /\ pc' = "main"
    /\ UNCHANGED <<extractVars, warnings, mapVars, runVars, args, exit_code>>

\* main after extract_and_process, with --skip-verification
MainSkipVerification ==
    /\ pc = "main"
    /\ args' \in {a \in Args : a.skip_verification}
    /\ exit_code' = 0
    /\ pc' = "done"
    /\ UNCHANGED <<extractVars, warnings, mapVars, runVars, fileVars, verifyVars>>

\* main after extract_and_process, without --skip-verification: a pass of
\* _verify_output, and sys.exit(1) under --strict when it returns True
MainVerifyOutput ==
    /\ pc = "main"
    /\ VerifyPass
    /\ args' \in {a \in Args : ~a.skip_verification}
    /\ exit_code' = IF args'.strict /\ issues_found' THEN 1 ELSE 0
    /\ pc' = "done"
    /\ UNCHANGED <<extractVars, warnings, mapVars, runVars>>

Next ==
    \/ ExtractSymbols
    \/ MapFunctions
    \/ MapStructs
    \/ MapEnums
    \/ MapTypedefs
    \/ MapGlobals
    \/ MapMacros
    \/ AnalyzeModuleDependencies
    \/ MapConditionals
    \/ CreateCommonHeader
    \/ CreateModule
    \/ CreateMainHeader
    \/ VerifyOutput
    \/ MainSkipVerification
    \/ MainVerifyOutput

Spec == Init /\ [][Next]_vars

(***************************************************************************)
(* The properties of a run.                                                *)
(***************************************************************************)
\* the sum of the values of a function with a finite domain
RECURSIVE Total(_)
Total(counts) ==
    IF DOMAIN counts = {} THEN 0
    ELSE counts[CHOOSE p \in DOMAIN counts : TRUE]
         + Total([q \in DOMAIN counts \ {CHOOSE p \in DOMAIN counts : TRUE} |-> counts[q]])

\* the opening directives and the '#endif's of all files, as _verify_output counts them
TotalOpen(fs) == Total([path \in DOMAIN fs |-> OpenDirectives(fs[path])])

TotalClose(fs) == Total([path \in DOMAIN fs |-> CloseDirectives(fs[path])])

\* the nesting depth that the directives dl[i], ..., dl[k] add
DepthAfter(dl, i, k) ==
    Cardinality({n \in i..k : StartsWith(dl[n][2], "#if")})
    - Cardinality({n \in i..k : StartsWith(dl[n][2], "#endif")})

\* an input whose preprocessor directives are balanced: the depth is never
\* negative, and zero at the end
BalancedInput(lines) ==
    /\ \A k \in 1..Len(DirectiveLines(lines, 1)) : DepthAfter(DirectiveLines(lines, 1), 1, k) >= 0
    /\ DepthAfter(DirectiveLines(lines, 1), 1, Len(DirectiveLines(lines, 1))) = 0

\* the directive that closes the conditional that directive i opens, 0 without one
MatchingEndif(dl, i) == MinOf({k \in (i + 1)..Len(dl) : DepthAfter(dl, i, k) = 0})

\* C1: for an input whose directives are balanced, at the end of the run the
\* opening directives of all generated files are as many as their '#endif's
C1_TotalsEqual ==
    (pc = "done" /\ BalancedInput(content)) => TotalOpen(files) = TotalClose(files)

\* C1: a run on a balanced input has ended after synthesis and verification
C1_BalancedRunEnded ==
    pc = "done" /\ BalancedInput(content) /\ TotalOpen(files) > 0 /\ passes = 2

\* map_symbols_to_components has returned
SymbolsMapped ==
    pc \in {"create_common_header", "create_module", "create_main_header",
            "verify_output", "main", "done"}

\* is directive k a branch ('#elif', '#else') of the conditional that directive i
\* opens, and not of a conditional nested in it
IsBranchOf(dl, i, k) ==
    /\ StartsWith(dl[k][2], "#elif") \/ StartsWith(dl[k][2], "#else")
    /\ DepthAfter(dl, i, k) = 1

\* the multi-branch conditionals of the input: the pairs <<first line, last line>>
\* (from 1) of an opening directive and its matching '#endif' with a branch between
Chains(dl) ==
    {<<dl[i][1] + 1, dl[MatchingEndif(dl, i)][1] + 1>> :
        i \in {n \in 1..Len(dl) :
                 /\ StartsWith(dl[n][2], "#if")
                 /\ MatchingEndif(dl, n) # 0
                 /\ \E k \in (n + 1)..(MatchingEndif(dl, n) - 1) : IsBranchOf(dl, n, k)}}

\* does the content of the element hold these lines, one after the other
Carries(elem, lines) ==
    \E k \in 0..(Len(elem.content) - Len(lines)) :
        SubSeq(elem.content, k + 1, k + Len(lines)) = lines

\* the places of an element in the lists of the modules: <<module, index>>
Placements(out, elem) ==
    UNION {{<<out[m].key, k>> : k \in {n \in 1..Len(out[m].elements) : out[m].elements[n] = elem}} :
             m \in 1..Len(out)}

\* C2: every multi-branch conditional of the input is carried, from its opening
\* directive to its matching '#endif', by one conditional element, which is in
\* the list of exactly one module
C2_ChainInOneModule ==
    SymbolsMapped =>
        \A chain \in Chains(DirectiveLines(content, 1)) :
            \E i \in 1..Len(conditionals) :
                /\ Carries(conditionals[i], SubSeq(content, chain[1], chain[2]))
                /\ \A j \in 1..Len(conditionals) :
                      Carries(conditionals[j], SubSeq(content, chain[1], chain[2])) => j = i
                /\ Cardinality(Placements(output_files, conditionals[i])) = 1

\* C2: a multi-branch conditional with lines in its branches has been mapped
C2_ChainMapped ==
    /\ SymbolsMapped
    /\ \E chain \in Chains(DirectiveLines(content, 1)) : chain[2] - chain[1] >= 4

\* the generated headers and implementation files
Headers == {path \in DOMAIN files : EndsWith(path, ".h")}

Implementations == {path \in DOMAIN files : EndsWith(path, ".c")}

\* how many lines of the files of the paths are, stripped, this line
Occurrences(paths, line) ==
    Total([path \in paths |->
             Cardinality({i \in 1..Len(files[path]) : Strip(files[path][i]) = line})])

\* an input line that is the definition of a function, by function_regex
IsFunctionLine(line) == FunctionsFrom(line, 1, 0).elems # <<>>

IsStaticLine(line) == StartsWith(Strip(line), "static")

\* the prototype of the function that the line defines
PrototypeOf(line) == Strip(SubSeq(line, 1, IndexOf(line, "{") - 1)) \o ";"

\* C3: at the end of a run that did not fail, every non-static function of the
\* input has one prototype in the headers and one body in the implementation
\* files, and no static function has a prototype in a header
C3_PrototypeAndBody ==
    (pc = "done" /\ ~failed) =>
        \A i \in 1..Len(content) :
            IsFunctionLine(content[i]) =>
                IF IsStaticLine(content[i])
                THEN Occurrences(Headers, PrototypeOf(content[i])) = 0
                ELSE /\ Occurrences(Headers, PrototypeOf(content[i]))
                          = Cardinality({j \in 1..Len(content) :
                                           /\ IsFunctionLine(content[j])
                                           /\ ~IsStaticLine(content[j])
                                           /\ PrototypeOf(content[j]) = PrototypeOf(content[i])})
                     /\ Occurrences(Implementations, Strip(content[i]))
                          = Cardinality({j \in 1..Len(content) : content[j] = content[i]})

\* C3: a run on an input with a static function after a conditional has ended
C3_StaticFunctionRun ==
    /\ pc = "done" /\ ~failed
    /\ \E i \in 2..Len(content) :
          /\ IsFunctionLine(content[i]) /\ IsStaticLine(content[i])
          /\ StartsWith(content[i - 1], "#endif")

\* the pairs <<module, element>> of the element lists
Placed(out) ==
    UNION {{<<out[m].key, out[m].elements[n]>> : n \in 1..Len(out[m].elements)} :
             m \in 1..Len(out)}

IsPinned(elem) ==
    \/ elem.type \in {"struct", "typedef"} /\ InList(elem.name, COMMON_TYPES)
    \/ elem.type = "enum" /\ InList(elem.name, COMMON_ENUMS)
    \/ elem.type = "macro" /\ InList(elem.name, REQUIRED_CONSTANTS)

C5_NoIssueNoChange ==
    [][(passes' = passes + 1 /\ ~issues_found') => files' = files]_vars

\* C5: a pass of _verify_output has returned False
C5_PassWithoutIssue == passes > 0 /\ ~issues_found

FooInput == <<"#define FOO 1", "#ifdef FOO", "int x;", "#endif">>

\* a text with the line '#ifdef FOO' and, after it, its matching '#endif'
HoldsFooConditional(text) ==
    \E i \in 1..Len(text) :
        /\ Strip(text[i]) = "#ifdef FOO"
        /\ \E j \in (i + 1)..Len(text) :
              /\ StartsWith(Strip(text[j]), "#endif")
              /\ Cardinality({n \in i..j : StartsWith(Strip(text[n]), "#if")})
                   = Cardinality({n \in i..j : StartsWith(Strip(text[n]), "#endif")})

\* C6: at the end of the run on FooInput one file holds '#ifdef FOO' with its
\* matching '#endif', and it is a file of the module of the macro FOO
C6_FooConditionalInOneFile ==
    (pc = "done" /\ content = FooInput) =>
        /\ Cardinality({path \in DOMAIN files : HoldsFooConditional(files[path])}) = 1
        /\ \A path \in DOMAIN files :
              HoldsFooConditional(files[path]) =>
                  path \in {CPath(SymbolEntry(symbol_map, "FOO").component),
                            HPath(SymbolEntry(symbol_map, "FOO").component)}

\* C6: the run on FooInput has ended, with and without the verification of main
C6_FooRunEnded == pc = "done" /\ content = FooInput /\ ~failed

\* C7: a function named forward_softmax is in the element list of 'softmax_impl',
\* one named make_connected_layer in that of 'connected_impl', and an enum named
\* ACTIVATION in that of 'common'
C7_NamedScenarios ==
    SymbolsMapped =>
        \A p \in Placed(output_files) :
            /\ (p[2].type = "function" /\ p[2].name = "forward_softmax") => p[1] = "softmax_impl"
            /\ (p[2].type = "function" /\ p[2].name = "make_connected_layer")
                  => p[1] = "connected_impl"
            /\ (p[2].type = "enum" /\ p[2].name = "ACTIVATION") => p[1] = "common"

\* C7: the three elements of the scenario are mapped
C7_ScenarioMapped ==
    /\ SymbolsMapped
    /\ \E p \in Placed(output_files) : p[2].type = "function" /\ p[2].name = "forward_softmax"
    /\ \E p \in Placed(output_files) :
          p[2].type = "function" /\ p[2].name = "make_connected_layer"
    /\ \E p \in Placed(output_files) : p[2].type = "enum" /\ p[2].name = "ACTIVATION"

\* an input with an opening directive that no #endif matches
UnterminatedInput(lines) ==
    \E i \in 1..Len(DirectiveLines(lines, 1)) :
        /\ StartsWith(DirectiveLines(lines, 1)[i][2], "#if")
        /\ MatchingEndif(DirectiveLines(lines, 1), i) = 0

\* the elements that extract_conditionals has repaired
FixedElements == {i \in 1..Len(conditionals) : conditionals[i].name = "conditional_fixed"}

EndsWithLine(text, line) ==
    \E k \in 1..Len(text) : text[k] = line /\ \A n \in (k + 1)..Len(text) : text[n] = ""

\* C8: at the end of a run on an input with an unterminated #if block there is
\* one warning and one repaired conditional element, which ends with the added
\* #endif; the extraction has gone on to map the element to a module, whose
\* implementation file is written and has as many opening directives as
\* #endif directives
C8_UnterminatedRepaired ==
    (pc = "done" /\ UnterminatedInput(content)) =>
        /\ Cardinality({w \in 1..Len(warnings) :
                          StartsWith(warnings[w], "Warning: Unterminated conditional")}) = 1
        /\ Cardinality(FixedElements) = 1
        /\ \A i \in FixedElements :
              /\ EndsWithLine(SplitLines(conditionals[i].content), AutoEndifUnterminated)
              /\ \E p \in Placed(output_files) : p[2] = conditionals[i]
              /\ \A p \in Placed(output_files) :
                    p[2] = conditionals[i] =>
                        /\ CPath(p[1]) \in DOMAIN files
                        /\ OpenDirectives(files[CPath(p[1])])
                             = CloseDirectives(files[CPath(p[1])])

\* C8: the run on an input with an unterminated #if block has ended
C8_UnterminatedRunEnded == pc = "done" /\ UnterminatedInput(content) /\ passes = 2

\* the extracted elements, list after list
Extracted == functions \o structs \o enums \o typedefs \o globals \o macros \o conditionals

\* C9: once the symbols are mapped, every extracted element is in the element
\* list of one module, and the lists hold nothing else
C9_OneModuleEach ==
    SymbolsMapped =>
        /\ \A i \in 1..Len(Extracted) :
              Cardinality(Placements(output_files, Extracted[i])) = 1
        /\ Total([m \in 1..Len(output_files) |-> Len(output_files[m].elements)])
             = Len(Extracted)

\* C9: a global and a conditional are mapped
C9_GlobalAndConditionalMapped == SymbolsMapped /\ globals # <<>> /\ conditionals # <<>>

\* how many times the mapping assigns the module of the symbol
Assignments(symbol) ==
    Cardinality({i \in 1..Len(functions \o structs \o enums \o typedefs \o globals \o macros) :
                   (functions \o structs \o enums \o typedefs \o globals \o macros)[i].name
                     = symbol})

\* the mapping assigns the module of every symbol once
AssignedOnce == \A i \in 1..Len(symbol_map) : Assignments(symbol_map[i].symbol) = 1

\* C10: the module of a symbol-table entry, once set, does not change, and is
\* set once
C10_ModuleSetOnce ==
    [][/\ \A i \in 1..Len(symbol_map) :
             (i <= Len(symbol_map') /\ symbol_map[i].component # NoComponent)
                 => symbol_map'[i].component = symbol_map[i].component
       /\ (pc' = "map_conditionals") => AssignedOnce']_vars

\* C10: a name extracted as a function and as a macro is mapped
C10_FunctionAndMacro ==
    /\ SymbolsMapped
    /\ \E i \in 1..Len(functions) : \E j \in 1..Len(macros) : functions[i].name = macros[j].name

\* the platform macros
PlatformMacros ==
    {"_WIN32", "__APPLE__", "__linux__", "_MSC_VER", "OS_WIN", "OS_UNIX", "OS_OTHER"}

\* a line that guards a block by a platform macro, in one of the three forms
IsPlatformGuard(line) ==
    \E x \in PlatformMacros :
        Strip(line) \in {"#ifdef " \o x, "#ifndef " \o x, "#if defined(" \o x \o ")"}

HasPlatformGuard(elem) == \E k \in 1..Len(elem.content) : IsPlatformGuard(elem.content[k])

\* the conditional groups of the run that hold a block guarded by a platform macro
PlatformGroups ==
    {group \in {_group_related_conditionals(conditionals)[g] :
                   g \in 1..Len(_group_related_conditionals(conditionals))} :
        \E k \in 1..Len(group) : HasPlatformGuard(group[k])}

\* C11: once the symbols are mapped, every conditional of a group that holds a
\* block guarded by a platform macro is in the list of module 'common' and of no
\* other module
C11_PlatformToCommon ==
    SymbolsMapped =>
        \A group \in PlatformGroups : \A k \in 1..Len(group) :
            \A p \in Placed(output_files) : p[2] = group[k] => p[1] = "common"

\* the conditional groups of the run
Groups ==
    {_group_related_conditionals(conditionals)[g] :
        g \in 1..Len(_group_related_conditionals(conditionals))}

\* the guard of an element: the first of its lines that opens a conditional
GuardOf(elem) ==
    Strip(elem.content[MinOf({n \in 1..Len(elem.content) :
                                StartsWith(Strip(elem.content[n]), "#if")})])

\* the macro name that the guard of an element tests with #ifdef or #ifndef
TestedMacros(elem) ==
    IF \A n \in 1..Len(elem.content) : ~StartsWith(Strip(elem.content[n]), "#if") THEN {}
    ELSE IF StartsWith(GuardOf(elem), "#ifdef ") THEN {IdentAt(GuardOf(elem), 8)} \ {""}
    ELSE IF StartsWith(GuardOf(elem), "#ifndef ") THEN {IdentAt(GuardOf(elem), 9)} \ {""}
    ELSE {}

\* the modules of the classified symbols that the group tests
TestedModules(group) ==
    {SymbolEntry(symbol_map, x).component :
        x \in {y \in UNION {TestedMacros(group[k]) : k \in 1..Len(group)} :
                 y \in SymbolNames(symbol_map)
                 /\ SymbolEntry(symbol_map, y).component # NoComponent}}

\* the modules in whose lists the conditionals of the group are
ModulesOf(group) ==
    {p[1] : p \in {q \in Placed(output_files) : \E k \in 1..Len(group) : q[2] = group[k]}}

\* the module that the vote over the classified symbols in the group gives
RECURSIVE GroupVotes(_, _, _)
GroupVotes(group, k, votes) ==
    IF k > Len(group) THEN votes
    ELSE GroupVotes(group, k + 1, SymbolVotes(votes, JoinStr(group[k].content), symbol_map, 1))

VotedModule(group) ==
    IF GroupVotes(group, 1, <<>>) = <<>> THEN "common"
    ELSE MostCommon(GroupVotes(group, 1, <<>>))

\* C12: once the symbols are mapped, a conditional group without platform guard
\* that tests with #ifdef or #ifndef a classified symbol is in the list of the
\* module of that symbol, and of no other module
C12_TestedMacroModule ==
    SymbolsMapped =>
        \A group \in Groups \ PlatformGroups :
            TestedModules(group) # {} =>
                /\ ModulesOf(group) # {}
                /\ ModulesOf(group) \subseteq TestedModules(group)

\* C12: a group is in the module of the symbol it tests, and the vote gives
\* another module
C12_VoteOverridden ==
    /\ SymbolsMapped
    /\ \E group \in Groups \ PlatformGroups :
          /\ TestedModules(group) # {}
          /\ VotedModule(group) \notin TestedModules(group)
          /\ ModulesOf(group) \subseteq TestedModules(group)

\* C13: a run in which extract_and_process has caught an exception ends with a
\* non-zero exit status
C13_ExceptionExitsNonZero == (pc = "done" /\ failed) => exit_code # 0

\* C14: main exits non-zero under --strict when a pass of _verify_output of the
\* run has found an issue, and zero without --strict
C14_StrictExit ==
    [][(pc = "main" /\ pc' = "done") =>
          /\ (args'.strict /\ (issues_found \/ issues_found')) => exit_code' # 0
          /\ ~args'.strict => exit_code' = 0]_vars

\* C15: a run with --skip-verification ends without a pass of _verify_output
C15_SkipNeverVerifies == (pc = "done" /\ args.skip_verification) => passes = 0

\* C16: until the verifier runs, no path of the output directory has been
\* written more than once
C16_WrittenOnce == passes = 0 => \A path \in DOMAIN writes : writes[path] = 1

\* does the text hold the lines, one after the other
HoldsLines(text, lines) ==
    \E k \in 0..(Len(text) - Len(lines)) : SubSeq(text, k + 1, k + Len(lines)) = lines

\* C17: when the loop of create_output_files has ended, the common header holds
\* the API-export macro block and every required type-alias declaration
C17_CommonHeaderInjected ==
    pc \in {"create_main_header", "verify_output"} =>
        /\ HPath("common") \in DOMAIN files
        /\ HoldsLines(files[HPath("common")],
                      SubSeq(SOD_API_EXPORT_MACRO, 2, Len(SOD_API_EXPORT_MACRO) - 1))
        /\ \A k \in 1..Len(REQUIRED_TYPEDEFS) :
              StartsWith(REQUIRED_TYPEDEFS[k], "typedef")
                  => InList(REQUIRED_TYPEDEFS[k], files[HPath("common")])

\* the '#include' lines of a text, in their order
IncludesOf(text) == SelectSeq(text, LAMBDA line : StartsWith(line, "#include"))

\* the order of the characters of the module names
NameChars == "_abcdefghijklmnopqrstuvwxyz"

\* is the name a before the name b
NameBefore(a, b) ==
    \E k \in 1..(Len(a) + 1) :
        /\ k <= Len(b)
        /\ SubSeq(a, 1, k - 1) = SubSeq(b, 1, k - 1)
        /\ k = Len(a) + 1 \/ IndexOf(NameChars, Ch(a, k)) < IndexOf(NameChars, Ch(b, k))

\* the modules other than 'common'
OtherModules == Keys(output_files) \ {"common"}

IncludeOf(key) == "#include \"sod/sod_" \o key \o ".h\""

\* the modules whose implementation file is written
WrittenModules == {key \in Keys(output_files) : CPath(key) \in DOMAIN files}

\* C19: until the verifier runs, the implementation file of every module but
\* 'common' includes the common header, that of detection, cnn, box_utils,
\* activation and dropout includes the nn_types header, and no implementation
\* file has the include line of its own module
C19_InferredIncludes ==
    passes = 0 =>
        \A key \in WrittenModules :
            /\ key # "common" => InList(IncludeOf("common"), files[CPath(key)])
            /\ key \in {"detection", "cnn", "box_utils", "activation", "dropout"}
                  => InList(IncludeOf("nn_types"), files[CPath(key)])
            /\ ~InList(IncludeOf(key), files[CPath(key)])

\* C19: the implementation file of box_utils is written, and the elements of
\* the module mention a type of box_utils
C19_OwnTypeMentioned ==
    /\ passes = 0
    /\ "box_utils" \in WrittenModules
    /\ "box_utils" \in _get_necessary_includes(ElementsOf(output_files, "box_utils"))

\* the macro names that the '#ifdef' and '#ifndef' lines of an element test
AllTestedMacros(elem) ==
    {IdentAt(Strip(elem.content[k]), 8) :
        k \in {n \in 1..Len(elem.content) : StartsWith(Strip(elem.content[n]), "#ifdef ")}}
    \cup {IdentAt(Strip(elem.content[k]), 9) :
            k \in {n \in 1..Len(elem.content) : StartsWith(Strip(elem.content[n]), "#ifndef ")}}

\* the classified symbols
Classified ==
    {symbol_map[i].symbol :
        i \in {n \in 1..Len(symbol_map) : symbol_map[n].component # NoComponent}}

\* the groups to which no forced rule applies: no platform guard, and no
\* #ifdef or #ifndef of a classified symbol
Unforced ==
    {group \in Groups \ PlatformGroups :
        \A k \in 1..Len(group) : AllTestedMacros(group[k]) \cap Classified = {}}

\* the votes of a group for a module: one for every classified symbol of the
\* module in the text of a conditional of the group
VotesFor(group, module) ==
    Cardinality({v \in (1..Len(group)) \X (1..Len(symbol_map)) :
                    /\ symbol_map[v[2]].component = module
                    /\ Contains(JoinStr(group[v[1]].content), symbol_map[v[2]].symbol)})

\* the modules of the classified symbols
Modules == {symbol_map[i].component : i \in 1..Len(symbol_map)} \ {NoComponent}

HasVotes(group) == \E module \in Modules : VotesFor(group, module) > 0

\* C20: once the symbols are mapped, a conditional group to which no forced rule
\* applies is in the list of one module: 'common' when no classified symbol is
\* in its text, and otherwise a module with the most votes
C20_MajorityVote ==
    SymbolsMapped =>
        \A group \in Unforced :
            /\ Cardinality(ModulesOf(group)) = 1
            /\ \A module \in ModulesOf(group) :
                  IF HasVotes(group)
                  THEN /\ module \in Modules
                       /\ \A other \in Modules :
                             VotesFor(group, other) <= VotesFor(group, module)
                  ELSE module = "common"

\* C20: a group without forced rule has more votes for one module than for the
\* module it has voted for first
C20_MajorityNotFirst ==
    /\ SymbolsMapped
    /\ \E group \in Unforced :
          \E module \in Modules :
             /\ GroupVotes(group, 1, <<>>) # <<>>
             /\ VotesFor(group, FirstVoted(GroupVotes(group, 1, <<>>))) < VotesFor(group, module)

\* is a line of the file of the path, stripped, this line
HasLineOf(path, line) ==
    path \in DOMAIN files /\ \E i \in 1..Len(files[path]) : Strip(files[path][i]) = line

\* a conditional whose opening line is no other line of the input
OpensOnce(elem) ==
    Cardinality({i \in 1..Len(content) : Strip(content[i]) = GuardOf(elem)}) = 1

\* the conditionals of the modules that the loop of create_output_files has
\* gone through, each with the key of its module
EmittedConditionals ==
    {p \in Placed(output_files) :
        /\ p[2].type = "conditional"
        /\ \E k \in 1..Len(output_files) : output_files[k].key = p[1] /\ k < module_index}

\* C21: before any verification, a conditional of a module whose files are
\* written is in the header and not in the implementation when its content
\* holds a struct, enum or typedef declaration, and in the implementation and
\* not in the header otherwise
C21_ConditionalInOneFile ==
    passes = 0 =>
        \A p \in EmittedConditionals :
            OpensOnce(p[2]) =>
                /\ HasLineOf(HPath(p[1]), GuardOf(p[2])) = HasDeclarations(p[2])
                /\ HasLineOf(CPath(p[1]), GuardOf(p[2])) = ~HasDeclarations(p[2])

\* a line whose stripped text is bare 'endif', bare 'else' or starts with 'else if'
IsStray(line) == Strip(line) \in {"endif", "else"} \/ StartsWith(Strip(line), "else if")

\* the text that the implementation file receives for an element
ImplTextOf(elem) == EmittedContent(FixedImplElement(elem))

\* the text that the header receives for a conditional with a declaration
HeaderTextOf(file_key, elem) ==
    ContentsOf(ClosedElements(HeaderElementsOf(file_key, elem)))

\* has the text at least as many #endif as opening directives, and no line that
\* is bare 'endif', bare 'else' or starts with 'else if'
IsRepaired(text) ==
    /\ CloseDirectives(text) >= OpenDirectives(text)
    /\ \A n \in 1..Len(text) : ~IsStray(text[n])

Keywords ==
    {"if", "else", "while", "for", "return", "break", "continue", "static", "const",
     "void", "int", "float", "double", "char", "unsigned", "signed", "typedef", "struct",
     "enum", "union", "extern", "sizeof", "NULL", "size_t"}

\* the element references the symbol: the name is a word of its content
References(elem, symbol) ==
    LET S == JoinStr(elem.content)
    IN  /\ symbol \notin Keywords
        /\ \E i \in 1..(Len(S) - Len(symbol) + 1) :
              /\ SubSeq(S, i, i + Len(symbol) - 1) = symbol
              /\ i = 1 \/ Ch(S, i - 1) \notin WordChars
              /\ BoundaryAfter(S, i + Len(symbol) - 1)

\* C23: once the symbols are mapped, for every element of a module A that
\* references a symbol of another module B, used_in of the symbol holds A and
\* the module dependencies hold the pair of A and B
C23_UsesRecorded ==
    SymbolsMapped =>
        \A p \in Placed(output_files) : \A k \in 1..Len(symbol_map) :
            (/\ symbol_map[k].component \notin {NoComponent, p[1]}
             /\ References(p[2], symbol_map[k].symbol))
                => /\ p[1] \in symbol_map[k].used_in
                   /\ <<p[1], symbol_map[k].component>> \in module_deps

\* the lines of a text that are #endif directives, in their order
EndifLines(text) == SelectSeq(text, LAMBDA line : StartsWith(Strip(line), "#endif"))

\* the files that a pass of _verify_output reads with more #endif than opening
\* directives
ExcessFiles ==
    {path \in VerifiedPaths(output_files, files) :
        CloseDirectives(files[path]) > OpenDirectives(files[path])}

\* C24: a pass of _verify_output leaves every #endif line of a file that has
\* more #endif than opening directives as it is
C24_ExcessEndifKept ==
    [][passes' = passes + 1 =>
          \A path \in ExcessFiles : EndifLines(files'[path]) = EndifLines(files[path])]_vars

\* the directives that open a top-level block: every opening directive before
\* them is closed before them
TopOpenings(dl) ==
    {i \in 1..Len(dl) :
        /\ StartsWith(dl[i][2], "#if")
        /\ \A n \in 1..(i - 1) :
              StartsWith(dl[n][2], "#if") => MatchingEndif(dl, n) \in 1..(i - 1)}

\* the n-th of a set of numbers
Nth(S, n) == CHOOSE i \in S : Cardinality({k \in S : k < i}) = n - 1

\* the lines first..last (from 1) of the input with the line before and the
\* line after them
WithContext(lines, first, last) ==
    SubSeq(lines, Max2(1, first - 1), Min2(Len(lines), last + 1))

\* C25: the extraction yields one conditional element for each top-level block
\* of the input, in their order; the element of a block that is closed is the
\* lines from its opening directive to the #endif at which the depth returns
\* to zero, with one line of context on each side, so that its nested blocks
\* and its #elif and #else lines are in this element and in no element of
\* their own
C25_OneElementPerTopBlock ==
    pc # "extract_symbols" =>
        LET dl == DirectiveLines(content, 1)
            tops == TopOpenings(dl)
        IN  /\ Len(conditionals) = Cardinality(tops)
            /\ \A n \in 1..Cardinality(tops) :
                  MatchingEndif(dl, Nth(tops, n)) # 0 =>
                      SplitLines(conditionals[n].content)
                        = WithContext(content, dl[Nth(tops, n)][1] + 1,
                                      dl[MatchingEndif(dl, Nth(tops, n))][1] + 1)

\* C25: a top-level block with a nested block and #else lines is extracted,
\* and a second top-level block after it
C25_NestedExtracted ==
    /\ pc # "extract_symbols"
    /\ Len(conditionals) = 2
    /\ \E i \in TopOpenings(DirectiveLines(content, 1)) :
          /\ MatchingEndif(DirectiveLines(content, 1), i) > i + 3
          /\ IsOpening(DirectiveLines(content, 1)[i + 1][2])
          /\ \E k \in (i + 1)..MatchingEndif(DirectiveLines(content, 1), i) :
                IsBranchOf(DirectiveLines(content, 1), i, k)

\* the normalized condition of a conditional: its first line without the
\* '#if', '#ifdef' or '#ifndef' prefix
NormalizedCondition(elem) == SubIfDirective(FirstLine(elem.content))

\* C26: once the symbols are mapped, two conditional elements with the same
\* normalized condition are in the same group and in the list of the same
\* module
C26_SameConditionSameGroup ==
    SymbolsMapped =>
        \A i, j \in 1..Len(conditionals) :
            NormalizedCondition(conditionals[i]) = NormalizedCondition(conditionals[j])
                => /\ \E group \in Groups :
                         \E m, n \in 1..Len(group) :
                             group[m] = conditionals[i] /\ group[n] = conditionals[j]
                   /\ \E key \in Keys(output_files) :
                         /\ <<key, conditionals[i]>> \in Placed(output_files)
                         /\ <<key, conditionals[j]>> \in Placed(output_files)

\* create_output_files has returned or raised, and no verification has run
SynthesisEnded == passes = 0 /\ pc \in {"verify_output", "main"}

\* C27: when the synthesis has ended, every module has its implementation
\* file, from its first line to the include of its own header and beyond, and
\* its header, from the include guard to the #endif that closes it, and the
\* umbrella header is written
C27_SynthesisCompletes ==
    SynthesisEnded =>
        /\ \A key \in Keys(output_files) :
              /\ CPath(key) \in DOMAIN files
              /\ InList("#include \"sod_" \o key \o ".h\"", files[CPath(key)])
              /\ HPath(key) \in DOMAIN files
              /\ InList("#ifndef SOD_" \o Upper(key) \o "_H__", files[HPath(key)])
              /\ InList("#endif /* SOD_" \o Upper(key) \o "_H__ */", files[HPath(key)])
        /\ MainHeaderPath \in DOMAIN files

\* the functions of the modules that the loop of create_output_files has gone
\* through, each with the key of its module
EmittedFunctions ==
    {p \in Placed(output_files) :
        /\ p[2].type = "function"
        /\ \E k \in 1..Len(output_files) : output_files[k].key = p[1] /\ k < module_index}

\* C28: before any verification, the implementation file of a module whose
\* files are written holds the extracted text of each of its functions, line
\* for line
C28_FunctionTextUnchanged ==
    passes = 0 =>
        \A p \in EmittedFunctions :
            HoldsLines(files[CPath(p[1])], SplitLines(p[2].content))

\* a file to which a pass of the verifier has added an #endif that was missing
IsRepairedFile(text) ==
    \E n \in 1..Len(text) :
        \/ StartsWith(text[n], "#endif /* Auto-added to balance directives")
        \/ StartsWith(text[n], "#endif /* Auto-added to match")

\* C29: the second pass of _verify_output finds as many #endif as opening
\* directives in every file to which the first pass added a missing #endif,
\* and leaves the file as it is
C29_SecondPassIdle ==
    [][(passes = 1 /\ passes' = 2) =>
          \A path \in VerifiedPaths(output_files, files) :
              IsRepairedFile(files[path]) =>
                  /\ OpenDirectives(files[path]) = CloseDirectives(files[path])
                  /\ files'[path] = files[path]]_vars

\* how many lines of a text are the line
LinesEqual(text, line) == Cardinality({n \in 1..Len(text) : text[n] = line})

\* the number of #endif lines that _verify_output appends to the file of a path
MissingEndifs(path) ==
    Max2(0, OpenDirectives(files[path]) - CloseDirectives(files[path]))

\* C30: a pass of _verify_output over a file with fewer #endif than opening
\* directives ends with the appended '#endif /* Auto-added to balance
\* directives */' lines in the file, and with no other #endif line added
C30_AppendedEndifKept ==
    [][passes' = passes + 1 =>
          \A path \in VerifiedPaths(output_files, files) :
              MissingEndifs(path) > 0 =>
                  /\ LinesEqual(files'[path], AutoBalanced[2])
                       = LinesEqual(files[path], AutoBalanced[2]) + MissingEndifs(path)
                  /\ Len(EndifLines(files'[path]))
                       = Len(EndifLines(files[path])) + MissingEndifs(path)]_vars

====
